---- MODULE Spec2Model ----
(***************************************************************************)
(* State-machine model of the concurrent mark phase of the non-moving      *)
(* collector (rts/sm/NonMovingMark.c): mark queue, update remembered set,  *)
(* write barriers, closure tracer, mark loop and flush protocol.           *)
(***************************************************************************)
EXTENDS Integers, Sequences, FiniteSets, TLC

(***************************************************************************)
(* Bounds of the model.                                                    *)
(***************************************************************************)
\* entries per mark-queue block (a page-sized power of two in the runtime)
MARK_QUEUE_BLOCK_ENTRIES == 2
\* entries a queue used on its own holds at most, and blocks it allocates
MaxQueue == 5
MaxBlocks == 4
\* block descriptors the allocator has, and entries pushed in one cycle, when
\* the queues are followed block by block
MaxBds == 6
MaxEnts == 5
\* number of barrier operations the mutators perform in one mark cycle
MaxMutOps == 2
\* number of barrier pushes thread resurrection makes during the flush
MaxResurrect == 3
MaxPushes == 3

(***************************************************************************)
(* Values of the runtime that the mark phase reads.                        *)
(***************************************************************************)
nonmovingMarkEpoch == 2
\* How many Array# entries to add to the mark queue at once?
MARK_ARRAY_CHUNK_LENGTH == 128
static_flag == 1
STATIC_BITS == 3

Workers == {"w1", "w2"}
capabilities == <<"w1", "w2">>
n_capabilities == Len(capabilities)
GC == "gc"
NoThread == "none"

(***************************************************************************)
(* The heap the cycle runs on.  Block-descriptor data (generation, flags,  *)
(* size) and info-table data (SRT, stack layout) do not change during a    *)
(* mark; closure types and pointer fields do (variables info, payload,     *)
(* indirectee).                                                            *)
(***************************************************************************)
Objs == {"m", "a", "b", "t", "x", "u", "s", "nil", "y", "K", "T", "n", "lx", "pin", "arr", "Kw"}
NULL == "NULL"
\* a stack word that is not a pointer
W == "W"

StaticObjs == {"s", "nil"}
YoungObjs == {"y"}
LargeObjs == {"a", "T", "lx"}
SweepingObjs == {"a", "T"}
AfterSnapObjs == {"n"}
PinnedObjs == {"pin"}
SmallObjs == Objs \ (StaticObjs \cup YoungObjs \cup LargeObjs \cup PinnedObjs)

\* closure pointers carrying tag bits, and the closure each points to;
\* every other pointer is untagged
TaggedPtrs == {"b+1", "y+1", "s+2", "a+1"}
UNTAG_CLOSURE(p) ==
    CASE p = "b+1" -> "b"
      [] p = "y+1" -> "y"
      [] p = "s+2" -> "s"
      [] p = "a+1" -> "a"
      [] OTHER -> p

\* the block descriptor lookups take the address without its tag bits
HEAP_ALLOCED_GC(p) == UNTAG_CLOSURE(p) \notin StaticObjs
gen_is_oldest(p) == UNTAG_CLOSURE(p) \notin YoungObjs
bd_blocks(p) == IF p = "a" THEN 2 ELSE 1
\* words of one block of the segment holding a small object
nonmovingSegmentBlockWords(p) == IF p = "K" THEN 4 ELSE 2
\* p >= nonmovingSegmentGetBlock(seg, seg->next_free_snap)
above_next_free_snap(p) == p \in AfterSnapObjs

\* info->srt of the closure's info table (NULL: none)
srt_of(p) == IF p = "u" THEN "s" ELSE NULL

\* the activation records of a stack, from sp to the stack's end
stack_frames(p) ==
    IF p = "K"
    THEN << [type |-> "UPDATE_FRAME", slots |-> <<"u">>, size |-> 1, bitmap |-> 0, srt |-> NULL],
            [type |-> "RET_SMALL", slots |-> <<"b", W>>, size |-> 2, bitmap |-> 2, srt |-> "s"] >>
    ELSE IF p = "Kw"
    THEN << [type |-> "UPDATE_FRAME", slots |-> <<"x">>, size |-> 1, bitmap |-> 0, srt |-> NULL],
            [type |-> "INVALID_OBJECT", slots |-> <<W>>, size |-> 1, bitmap |-> 1, srt |-> NULL] >>
    ELSE << >>

\* TSO fields that are not closure pointers
tso_bound(p) == NULL
tso_block_info_is_closure(p) == TRUE

InitInfo ==
    [o \in Objs |->
        CASE o = "m" -> "MUT_VAR_CLEAN"
          [] o = "a" -> "CONSTR_1_0"
          [] o = "t" -> "THUNK_SELECTOR"
          [] o = "u" -> "THUNK_1_0"
          [] o = "s" -> "FUN_STATIC"
          [] o = "nil" -> "CONSTR_NOCAF"
          [] o \in {"K", "Kw"} -> "STACK"
          [] o = "T" -> "TSO"
          [] o = "arr" -> "MUT_ARR_PTRS_DIRTY"
          [] OTHER -> "CONSTR_0_1"]

InitPayload ==
    [o \in Objs |->
        CASE o = "m" -> <<"a">>
          [] o = "a" -> <<"b">>
          [] o = "t" -> <<"x">>
          [] o = "u" -> <<"a">>
          [] o = "s" -> <<"nil">>
          [] o = "T" -> <<"nil", "nil", "K", "nil", "nil">>
          [] OTHER -> << >>]

(***************************************************************************)
(* Mark queue entries and blocks.  A queue is its chain of blocks, the top *)
(* block first; a block is the sequence of its entries, its head the       *)
(* length.                                                                 *)
(***************************************************************************)
NoOrigin == [obj |-> NULL, idx |-> 0]
Slot(o, i) == [obj |-> o, idx |-> i]
MarkClosureEnt(p, origin) == [type |-> "MARK_CLOSURE", p |-> p, origin |-> origin]
NullEntry == [type |-> "NULL_ENTRY", p |-> NULL, origin |-> NoOrigin]
MarkArrayEnt(array, start_index) ==
    [type |-> "MARK_ARRAY", p |-> array, origin |-> NoOrigin, start_index |-> start_index]

\* the closures a chain of blocks refers to
RECURSIVE ChainEntries(_)
ChainEntries(blocks) ==
    IF blocks = << >> THEN {}
    ELSE {blocks[1][i].p : i \in 1..Len(blocks[1])} \cup ChainEntries(Tail(blocks))

init_mark_queue_ == << << >> >>

markQueueIsEmpty(q) == Len(q.blocks) = 1 /\ Len(q.blocks[1]) = 0

\* a transfer that leaves the remembered set a plain mark queue
nonmovingAddUpdRemSetBlocks_plain(st) ==
    IF Len(st.q.blocks) = 1 /\ Len(st.q.blocks[1]) = 0 THEN st
    ELSE [q |-> [blocks |-> << << >> >>, is_upd_rem_set |-> FALSE],
          list |-> st.q.blocks \o st.list]

\* a transfer that links the blocks onto the list and leaves the remembered set
\* pointing at them
nonmovingAddUpdRemSetBlocks_no_reset(st) ==
    IF Len(st.q.blocks) = 1 /\ Len(st.q.blocks[1]) = 0 THEN st
    ELSE [q |-> st.q, list |-> st.q.blocks \o st.list]

\* nonmovingAddUpdRemSetBlocks on st = [q, list]: the remembered set q and the
\* global list upd_rem_set_block_list
nonmovingAddUpdRemSetBlocks(st) ==
    IF markQueueIsEmpty(st.q) THEN st
    ELSE [q |-> [blocks |-> init_mark_queue_, is_upd_rem_set |-> TRUE],
          list |-> st.q.blocks \o st.list]

\* push on st = [q, list]
push(st, ent) ==
    LET full == Len(st.q.blocks[1]) = MARK_QUEUE_BLOCK_ENTRIES
        st1 == IF ~full THEN st
               ELSE IF st.q.is_upd_rem_set THEN nonmovingAddUpdRemSetBlocks(st)
               ELSE [st EXCEPT !.q.blocks = << << >> >> \o @]
    IN  [st1 EXCEPT !.q.blocks = << Append(@[1], ent) >> \o Tail(@)]

\* the locks push takes: none unless the top block is full; then
\* upd_rem_set_lock and the storage-manager lock in nonmovingAddUpdRemSetBlocks
\* for a remembered set, the storage-manager lock for a mark queue
push_locks(q) ==
    IF Len(q.blocks[1]) # MARK_QUEUE_BLOCK_ENTRIES THEN {}
    ELSE IF q.is_upd_rem_set
    THEN IF markQueueIsEmpty(q) THEN {} ELSE {"upd_rem_set_lock", "sm_mutex"}
    ELSE {"sm_mutex"}

\* blocks push takes from the allocator (allocGroup)
push_allocs(q) ==
    IF Len(q.blocks[1]) = MARK_QUEUE_BLOCK_ENTRIES /\ ~q.is_upd_rem_set THEN 1 ELSE 0

\* a push_closure that stores the pointer as given
push_closure_tagged(st, p, origin) ==
    IF HEAP_ALLOCED_GC(p) /\ ~gen_is_oldest(p) THEN st
    ELSE push(st, MarkClosureEnt(p, origin))

\* a GC-time push that drops young pointers as push_closure does
markQueuePushClosureGC_filtered(q, p) ==
    IF HEAP_ALLOCED_GC(p) /\ ~gen_is_oldest(p) THEN q
    ELSE LET full == Len(q.blocks[1]) = MARK_QUEUE_BLOCK_ENTRIES
             q1 == IF full THEN [q EXCEPT !.blocks = << << >> >> \o @] ELSE q
         IN  [q1 EXCEPT !.blocks =
                 << Append(@[1], MarkClosureEnt(UNTAG_CLOSURE(p), NoOrigin)) >> \o Tail(@)]

\* markQueuePushClosureGC: a fresh block when the top block is full, then the
\* entry
markQueuePushClosureGC(q, p) ==
    LET full == Len(q.blocks[1]) = MARK_QUEUE_BLOCK_ENTRIES
        q1 == IF full THEN [q EXCEPT !.blocks = << << >> >> \o @] ELSE q
    IN  [q1 EXCEPT !.blocks =
            << Append(@[1], MarkClosureEnt(UNTAG_CLOSURE(p), NoOrigin)) >> \o Tail(@)]

\* the locks markQueuePushClosureGC takes
markQueuePushClosureGC_locks(q) ==
    IF Len(q.blocks[1]) = MARK_QUEUE_BLOCK_ENTRIES THEN {"gc_alloc_block_sync"} ELSE {}

\* push_closure: pointers outside the oldest generation are dropped
push_closure(st, p, origin) ==
    IF HEAP_ALLOCED_GC(p) /\ ~gen_is_oldest(p) THEN st
    ELSE push(st, MarkClosureEnt(UNTAG_CLOSURE(p), origin))

push_array(st, array, start_index) ==
    IF HEAP_ALLOCED_GC(array) /\ ~gen_is_oldest(array) THEN st
    ELSE push(st, MarkArrayEnt(array, start_index))

\* a sequence of push_closure calls, ps a sequence of <<p, origin>>
RECURSIVE push_closures(_, _)
push_closures(st, ps) ==
    IF ps = << >> THEN st
    ELSE push_closures(push_closure(st, ps[1][1], ps[1][2]), Tail(ps))

\* a pop that takes the oldest entry of the top block
RECURSIVE markQueuePop_oldest(_)
markQueuePop_oldest(q) ==
    LET top == q.blocks[1] IN
    IF Len(top) = 0
    THEN IF Len(q.blocks) = 1
         THEN [q |-> q, ent |-> NullEntry]
         ELSE markQueuePop_oldest([q EXCEPT !.blocks = Tail(@)])
    ELSE [q |-> [q EXCEPT !.blocks = << Tail(top) >> \o Tail(@)], ent |-> top[1]]

RECURSIVE markQueuePop(_)
markQueuePop(q) ==
    LET top == q.blocks[1] IN
    IF Len(top) = 0
    THEN IF Len(q.blocks) = 1
         THEN [q |-> q, ent |-> NullEntry]
         ELSE markQueuePop([q EXCEPT !.blocks = Tail(@)])
    ELSE [q |-> [q EXCEPT !.blocks = << SubSeq(top, 1, Len(top) - 1) >> \o Tail(@)],
          ent |-> top[Len(top)]]

\* a pop that never returns a drained block
markQueuePop_frees_none(q) == 0

\* blocks markQueuePop returns to the allocator (freeGroup)
RECURSIVE markQueuePop_frees(_)
markQueuePop_frees(q) ==
    IF Len(q.blocks[1]) = 0 /\ Len(q.blocks) > 1
    THEN 1 + markQueuePop_frees([q EXCEPT !.blocks = Tail(@)])
    ELSE 0

\* blocks freeMarkQueue returns to the allocator (freeChain_lock)
freeMarkQueue(q) == Len(q.blocks)

(***************************************************************************)
(* State.                                                                  *)
(***************************************************************************)
VARIABLES
    \* closures: info-table type, pointer payload, indirectee word
    info, payload, indirectee,
    \* segment mark byte of a small object; BF_MARKED of a large object;
    \* stack->marking; static link field (a word whose low bits are the flag)
    mark, bf_marked, marking, static_link,
    \* Note [Large objects in the non-moving collector]
    nonmoving_large_objects, nonmoving_marked_large_objects,
    n_nonmoving_large_blocks, n_nonmoving_marked_large_blocks,
    nonmoving_large_objects_mutex,
    nonmoving_live_words,
    \* the collector's mark queue, each capability's upd_rem_set.queue, the
    \* global remembered set and its lock, flush counter and condition
    queue, urs, upd_rem_set_block_list, upd_rem_set_lock,
    upd_rem_set_flush_count, cond_woken,
    \* each worker's position in its own nonmovingFlushCapUpdRemSetBlocks call
    fpc,
    \* the collector thread: position, pass of the mark, locals of mark_closure
    \* (p, info type, next field, marking word read) and of nonmovingBeginFlush (i)
    cpc, phase, cur, cinfo, cfi, cmarking, ci,
    \* the mutator threads: position, operands, marking word read, operations done
    mpc, mobj, mval, mmarking, nops,
    \* history: closures reachable at the snapshot, pointers handed to
    \* updateRemembSetPushClosure, number of mark_stack runs per stack and of
    \* list moves per large object, threads that lost the CAS on a stack, the
    \* large-block total before the mark, the state after a first mark_closure
    snap_reach, satb_passed, stack_marks, large_moves, cas_lost,
    premark_blocks, saved,
    \* racing bump_static_flag calls: position, link word read, result (once
    \* returned)
    bpc, blink, bret,
    \* pushes made by thread resurrection between the flush and its end
    nres,
    \* the last liveness query: closure, its mark byte and BF_MARKED at the call,
    \* the results of nonmovingIsAlive and nonmovingIsNowAlive
    alive,
    \* the storage-manager lock; each thread's position in the function it runs
    \* (name, lock operations left); history: the writes to shared flush state
    \* and the lock acquisitions, with the locks held at that moment
    sm_mutex, lpc, lock_log,
    \* a queue used on its own: history of the entries pushed and not yet popped,
    \* blocks taken from and returned to the block allocator, the entry the last
    \* pop returned and the entry that was on top before it, the number of
    \* entries the last reset discarded
    pushed, n_alloc, n_freed, ret, expect, n_reset,
    \* the MARK_ARRAY case: arr->ptrs, the loop's i and end, and history: how
    \* often each index was pushed, the start indices processed
    arr_ptrs, arr_i, arr_end, arr_traced, arr_starts,
    \* weak pointers: info pointer and link field of each weak, the two lists,
    \* the locals of nonmovingTidyWeaks (w, last_w, did_work) with the two lists
    \* as they were at the call, the key of each weak
    weak_info, weak_link, nonmoving_old_weak_ptr_list, nonmoving_weak_ptr_list, tw,
    weak_key,
    \* the dead_weaks accumulator of nonmovingMarkDeadWeaks
    dead_weaks,
    \* threads: what_next and global_link of each TSO, the thread lists, the
    \* resurrected_threads accumulator, the locals of nonmovingTidyThreads and
    \* nonmovingResurrectThreads (t, prev) with the lists as they were at the call
    what_next, global_link, nonmoving_old_threads, nonmoving_threads, resurrected_threads, tt,
    \* the queues as chains of block descriptors: link, entries and allocation
    \* state of each block, the head of each capability's remembered set, of
    \* the global remembered set and of the mark queue; the call of
    \* nonmovingAddUpdRemSetBlocks each thread is in, the block the collector has
    \* unlinked and not yet freed; history: entries pushed so far, how often
    \* each was popped, the entries discarded, the allocator faults
    bdescr, rset_blocks, block_list, queue_blocks, add_call, old_block,
    n_ents, n_popped, discarded, faults

heapvars == <<info, payload, indirectee>>
markvars == <<mark, bf_marked, marking, static_link, nonmoving_live_words>>
largevars == <<nonmoving_large_objects, nonmoving_marked_large_objects,
               n_nonmoving_large_blocks, n_nonmoving_marked_large_blocks,
               nonmoving_large_objects_mutex>>
queuevars == <<queue, urs, upd_rem_set_block_list>>
flushvars == <<upd_rem_set_lock, upd_rem_set_flush_count, cond_woken, fpc>>
collvars == <<cpc, phase, cur, cinfo, cfi, cmarking, ci>>
mutvars == <<mpc, mobj, mval, mmarking, nops>>
histvars == <<snap_reach, satb_passed, stack_marks, large_moves, cas_lost,
              premark_blocks, saved>>
bumpvars == <<bpc, blink, bret>>
lockvars == <<sm_mutex, lpc, lock_log>>
qvars == <<pushed, n_alloc, n_freed, ret, expect, n_reset>>
arrvars == <<arr_ptrs, arr_i, arr_end, arr_traced, arr_starts>>
weakvars == <<weak_info, weak_link, nonmoving_old_weak_ptr_list, nonmoving_weak_ptr_list, tw,
              weak_key, dead_weaks>>
threadvars == <<what_next, global_link, nonmoving_old_threads, nonmoving_threads,
                resurrected_threads, tt>>
blockvars == <<bdescr, rset_blocks, block_list, queue_blocks, add_call, old_block,
               n_ents, n_popped, discarded, faults>>
auxvars == <<nres, alive, lockvars, qvars, arrvars, weakvars, threadvars, blockvars>>
vars == <<heapvars, markvars, largevars, queuevars, flushvars, collvars, mutvars,
          histvars, bumpvars, auxvars>>

(***************************************************************************)
(* Block descriptors and liveness queries.                                 *)
(***************************************************************************)
bd_flags(p) ==
    LET o == UNTAG_CLOSURE(p) IN
    (IF o \in SmallObjs \cup LargeObjs THEN {"BF_NONMOVING"} ELSE {})
    \cup (IF o \in LargeObjs THEN {"BF_LARGE"} ELSE {})
    \cup (IF o \in SweepingObjs THEN {"BF_NONMOVING_SWEEPING"} ELSE {})
    \cup (IF o \in PinnedObjs THEN {"BF_PINNED"} ELSE {})
    \cup (IF o \in bf_marked THEN {"BF_MARKED"} ELSE {})

\* a barrier filter that takes only segment-allocated objects for non-moving
check_in_nonmoving_heap_small_only(p) ==
    IF HEAP_ALLOCED_GC(p) THEN p \in SmallObjs ELSE TRUE

check_in_nonmoving_heap(p) ==
    IF HEAP_ALLOCED_GC(p) THEN "BF_NONMOVING" \in bd_flags(p) ELSE TRUE

\* a test that takes every large object of the snapshot as unmarked
needs_upd_rem_set_mark_snapshot(p) ==
    IF ~gen_is_oldest(p) THEN FALSE
    ELSE IF "BF_LARGE" \in bd_flags(p)
         THEN "BF_NONMOVING_SWEEPING" \in bd_flags(p)
         ELSE mark[p] # nonmovingMarkEpoch

needs_upd_rem_set_mark(p) ==
    IF ~gen_is_oldest(p) THEN FALSE
    ELSE IF "BF_LARGE" \in bd_flags(p)
         THEN IF "BF_NONMOVING_SWEEPING" \notin bd_flags(p) THEN FALSE
              ELSE "BF_MARKED" \notin bd_flags(p)
         ELSE mark[p] # nonmovingMarkEpoch

\* a query that takes every block for part of the snapshot
nonmovingIsAlive_snapshot_only(p) ==
    IF ~HEAP_ALLOCED_GC(p) THEN TRUE
    ELSE IF "BF_LARGE" \in bd_flags(p)
         THEN "BF_NONMOVING_SWEEPING" \notin bd_flags(p) \/ "BF_MARKED" \in bd_flags(p)
         ELSE mark[p] = nonmovingMarkEpoch

nonmovingIsAlive(p) ==
    IF ~HEAP_ALLOCED_GC(p) THEN TRUE
    ELSE IF "BF_LARGE" \in bd_flags(p)
         THEN "BF_NONMOVING_SWEEPING" \notin bd_flags(p) \/ "BF_MARKED" \in bd_flags(p)
         ELSE IF above_next_free_snap(p)
              THEN mark[p] = nonmovingMarkEpoch \/ mark[p] = 0
              ELSE mark[p] = nonmovingMarkEpoch

\* a query that treats blocks allocated after the snapshot as nonmovingIsAlive does
nonmovingIsNowAlive_post_snapshot(p) ==
    IF ~HEAP_ALLOCED_GC(p) THEN TRUE
    ELSE IF "BF_LARGE" \in bd_flags(p)
         THEN "BF_NONMOVING_SWEEPING" \notin bd_flags(p) \/ "BF_MARKED" \in bd_flags(p)
         ELSE mark[p] = nonmovingMarkEpoch \/ (above_next_free_snap(p) /\ mark[p] = 0)

nonmovingIsNowAlive(p) ==
    IF ~HEAP_ALLOCED_GC(p) THEN TRUE
    ELSE IF "BF_LARGE" \in bd_flags(p)
         THEN "BF_NONMOVING_SWEEPING" \notin bd_flags(p) \/ "BF_MARKED" \in bd_flags(p)
         ELSE mark[p] = nonmovingMarkEpoch

(***************************************************************************)
(* What the tracer pushes: sequences of <<pointer, origin>>, in the order  *)
(* of the pushes.                                                          *)
(***************************************************************************)
push_srt(p) == IF srt_of(p) # NULL THEN << <<srt_of(p), NoOrigin>> >> ELSE << >>

PUSH_FIELD(p, i) == << <<payload[p][i], Slot(p, i)>> >>

RECURSIVE push_payload(_, _, _)
push_payload(p, i, n) == IF i > n THEN << >> ELSE PUSH_FIELD(p, i) \o push_payload(p, i + 1, n)

RECURSIVE mark_small_bitmap(_, _, _)
mark_small_bitmap(slots, size, bitmap) ==
    IF size = 0 THEN << >>
    ELSE (IF bitmap % 2 = 0 THEN << <<slots[1], NoOrigin>> >> ELSE << >>)
         \o mark_small_bitmap(Tail(slots), size - 1, bitmap \div 2)

SmallFrameTypes == {"CATCH_STM_FRAME", "CATCH_RETRY_FRAME", "ATOMICALLY_FRAME",
                    "UNDERFLOW_FRAME", "STOP_FRAME", "CATCH_FRAME", "RET_SMALL"}

\* one activation record of mark_stack_ (update frames and small-bitmap frames)
mark_frame(f) ==
    IF f.type = "UPDATE_FRAME" THEN << <<f.slots[1], NoOrigin>> >>
    ELSE IF f.type \in SmallFrameTypes
    THEN mark_small_bitmap(f.slots, f.size, f.bitmap)
         \o (IF f.srt # NULL THEN << <<f.srt, NoOrigin>> >> ELSE << >>)
    ELSE << >>

\* the frame types the switch of mark_stack_ has a case for
KnownFrameTypes == {"UPDATE_FRAME", "RET_BCO", "RET_BIG", "RET_FUN"} \cup SmallFrameTypes

\* default: barf("mark_stack: weird activation record found on stack")
RECURSIVE mark_stack_aborts(_)
mark_stack_aborts(frames) ==
    IF frames = << >> THEN FALSE
    ELSE frames[1].type \notin KnownFrameTypes \/ mark_stack_aborts(Tail(frames))

\* the pushes of the walk, which ends at a frame of unknown type
RECURSIVE mark_stack_(_)
mark_stack_(frames) ==
    IF frames = << >> \/ frames[1].type \notin KnownFrameTypes THEN << >>
    ELSE mark_frame(frames[1]) \o mark_stack_(Tail(frames))

\* a stack walk that stops after the first activation record
mark_stack_first_frame(stack) ==
    IF stack_frames(stack) = << >> THEN << >> ELSE mark_frame(stack_frames(stack)[1])

mark_stack(stack) == mark_stack_(stack_frames(stack))

mark_tso(tso) ==
    LET f == payload[tso] IN
    (IF tso_bound(tso) # NULL THEN << <<tso_bound(tso), NoOrigin>> >> ELSE << >>)
    \o << <<f[1], NoOrigin>>, <<f[2], NoOrigin>>, <<f[3], NoOrigin>>, <<f[4], NoOrigin>> >>
    \o (IF tso_block_info_is_closure(tso) THEN << <<f[5], NoOrigin>> >> ELSE << >>)

\* the pointer arrays, which the trace switch queues as one MARK_ARRAY entry
ArrayTypes == {"MUT_ARR_PTRS_CLEAN", "MUT_ARR_PTRS_DIRTY", "MUT_ARR_PTRS_FROZEN_CLEAN",
               "MUT_ARR_PTRS_FROZEN_DIRTY"}

\* the closure types the trace switch of mark_closure handles here
TracedTypes == {"MVAR_CLEAN", "MVAR_DIRTY", "TVAR", "FUN_2_0", "THUNK_2_0", "CONSTR_2_0",
                "THUNK_1_0", "FUN_1_0", "CONSTR_1_0", "THUNK_0_1", "FUN_0_1", "CONSTR_0_1",
                "CONSTR_0_2", "THUNK_0_2", "FUN_0_2", "THUNK_1_1", "FUN_1_1", "CONSTR_1_1",
                "FUN", "THUNK", "CONSTR", "CONSTR_NOCAF", "WEAK", "PRIM", "BCO", "IND",
                "BLACKHOLE", "MUT_VAR_CLEAN", "MUT_VAR_DIRTY", "BLOCKING_QUEUE",
                "THUNK_SELECTOR", "ARR_WORDS", "SMALL_MUT_ARR_PTRS_CLEAN",
                "SMALL_MUT_ARR_PTRS_DIRTY", "TSO", "STACK", "MUT_PRIM", "AP"} \cup ArrayTypes

\* the pushes of the trace switch of mark_closure for a heap closure p read as
\* type ty; the one push for a pointer array is markQueuePushArray(queue, p, 0)
trace_closure(ty, p) ==
    CASE ty \in {"MVAR_CLEAN", "MVAR_DIRTY", "BCO"} -> push_payload(p, 1, 3)
      [] ty = "TVAR" -> push_payload(p, 1, 2)
      [] ty \in {"FUN_2_0", "THUNK_2_0"} -> push_srt(p) \o PUSH_FIELD(p, 2) \o PUSH_FIELD(p, 1)
      [] ty = "CONSTR_2_0" -> PUSH_FIELD(p, 2) \o PUSH_FIELD(p, 1)
      [] ty \in {"THUNK_1_0", "FUN_1_0", "THUNK_1_1", "FUN_1_1"} -> push_srt(p) \o PUSH_FIELD(p, 1)
      [] ty \in {"CONSTR_1_0", "CONSTR_1_1"} -> PUSH_FIELD(p, 1)
      [] ty \in {"THUNK_0_1", "FUN_0_1", "THUNK_0_2", "FUN_0_2"} -> push_srt(p)
      [] ty \in {"CONSTR_0_1", "CONSTR_0_2", "ARR_WORDS"} -> << >>
      [] ty \in {"FUN", "THUNK"} -> push_srt(p) \o push_payload(p, 1, Len(payload[p]))
      [] ty \in {"CONSTR", "CONSTR_NOCAF", "WEAK", "PRIM", "MUT_PRIM",
                 "SMALL_MUT_ARR_PTRS_CLEAN", "SMALL_MUT_ARR_PTRS_DIRTY"} ->
            push_payload(p, 1, Len(payload[p]))
      [] ty \in {"IND", "BLACKHOLE"} -> << <<indirectee[p], Slot(p, 0)>> >>
      [] ty \in {"MUT_VAR_CLEAN", "MUT_VAR_DIRTY", "THUNK_SELECTOR"} -> PUSH_FIELD(p, 1)
      [] ty = "BLOCKING_QUEUE" -> push_payload(p, 1, 4)
      [] ty = "AP" ->
            PUSH_FIELD(p, 1) \o mark_small_bitmap(Tail(payload[p]), Len(payload[p]) - 1, 0)
      [] ty = "TSO" -> mark_tso(p)
      [] ty = "STACK" -> mark_stack(p)
      [] ty \in ArrayTypes -> << <<p, NoOrigin>> >>
      [] OTHER -> << >>

\* the static closure types mark_closure links and traces
StaticLinkedTypes == {"THUNK_STATIC", "FUN_STATIC", "IND_STATIC", "CONSTR", "CONSTR_1_0",
                      "CONSTR_2_0", "CONSTR_1_1"}
StaticIgnoredTypes == {"CONSTR_0_1", "CONSTR_0_2", "CONSTR_NOCAF"}

\* whether mark_closure calls bump_static_flag on static closure p of type ty
static_wants_bump(ty, p) ==
    CASE ty = "THUNK_STATIC" -> srt_of(p) # NULL
      [] ty = "FUN_STATIC" -> srt_of(p) # NULL \/ Len(payload[p]) # 0
      [] ty \in StaticLinkedTypes -> TRUE
      [] OTHER -> FALSE

\* the pushes for a static closure whose bump_static_flag returned true
trace_static(ty, p) ==
    CASE ty = "THUNK_STATIC" -> push_srt(p)
      [] ty = "FUN_STATIC" -> push_srt(p) \o push_payload(p, 1, Len(payload[p]))
      [] ty = "IND_STATIC" -> << <<indirectee[p], Slot(p, 0)>> >>
      [] OTHER -> push_payload(p, 1, Len(payload[p]))

\* a link word computed without the flag
bump_new_link_unflagged(link) == link

\* bump_static_flag: the link word the CAS installs, and the test that returns false
bump_new_link(link) == (link - (link % (STATIC_BITS + 1))) + static_flag
bump_is_current(link) == (link % (STATIC_BITS + 1)) = static_flag

(***************************************************************************)
(* What the thunk barrier pushes (updateRemembSetPushThunkEager).          *)
(***************************************************************************)
ThunkPayloadTypes == {"THUNK", "THUNK_1_0", "THUNK_0_1", "THUNK_2_0", "THUNK_1_1", "THUNK_0_2"}
ThunkSkippedTypes == {"THUNK_SELECTOR", "BLACKHOLE"}

RECURSIVE push_thunk_payload(_, _, _)
push_thunk_payload(thunk, i, record_origin) ==
    IF i > Len(payload[thunk]) THEN << >>
    ELSE (IF check_in_nonmoving_heap(payload[thunk][i])
          THEN << <<payload[thunk][i], IF record_origin THEN Slot(thunk, i) ELSE NoOrigin>> >>
          ELSE << >>)
         \o push_thunk_payload(thunk, i + 1, record_origin)

\* the pushes of updateRemembSetPushThunkEager for a thunk read as type ty
updateRemembSetPushThunkEager(ty, thunk) ==
    CASE ty \in ThunkPayloadTypes ->
            push_srt(thunk) \o push_thunk_payload(thunk, 1, check_in_nonmoving_heap(thunk))
      [] ty = "AP" ->
            << <<payload[thunk][1], Slot(thunk, 1)>> >>
            \o mark_small_bitmap(Tail(payload[thunk]), Len(payload[thunk]) - 1, 0)
      [] ty \in ThunkSkippedTypes -> << >>
      [] OTHER -> << >>

\* a barrier that takes every closure type
updateRemembSetPushThunkEager_aborts_never(ty) == FALSE

\* default: barf("updateRemembSetPushThunk: invalid thunk pushed")
updateRemembSetPushThunkEager_aborts(ty) ==
    ty \notin ThunkPayloadTypes \cup {"AP"} \cup ThunkSkippedTypes

\* the pointer fields an update of the thunk destroys
thunk_pointer_fields(ty, thunk) ==
    IF ty \in {"BLACKHOLE", "IND"} THEN {indirectee[thunk]}
    ELSE {payload[thunk][i] : i \in 1..Len(payload[thunk])}
         \cup (IF srt_of(thunk) # NULL THEN {srt_of(thunk)} ELSE {})

(***************************************************************************)
(* Classification and mark-setting steps of mark_closure.                  *)
(***************************************************************************)
\* a classification without the test of the mark byte against the epoch
classify_heap_no_epoch_test(p) ==
    IF ~gen_is_oldest(p) THEN "skip"
    ELSE IF "BF_NONMOVING" \in bd_flags(p)
    THEN IF "BF_LARGE" \in bd_flags(p)
         THEN IF "BF_NONMOVING_SWEEPING" \notin bd_flags(p) THEN "skip"
              ELSE IF "BF_MARKED" \in bd_flags(p) THEN "skip"
              ELSE "trace"
         ELSE IF above_next_free_snap(p) /\ mark[p] = 0 THEN "skip"
              ELSE "trace"
    ELSE IF "BF_PINNED" \in bd_flags(p) THEN "skip"
    ELSE "barf"

\* a classification that traces the blocks allocated after the snapshot
classify_heap_after_snapshot(p) ==
    IF ~gen_is_oldest(p) THEN "skip"
    ELSE IF "BF_NONMOVING" \in bd_flags(p)
    THEN IF "BF_LARGE" \in bd_flags(p)
         THEN IF "BF_NONMOVING_SWEEPING" \notin bd_flags(p) THEN "skip"
              ELSE IF "BF_MARKED" \in bd_flags(p) THEN "skip"
              ELSE "trace"
         ELSE IF mark[p] = nonmovingMarkEpoch THEN "skip"
              ELSE "trace"
    ELSE IF "BF_PINNED" \in bd_flags(p) THEN "skip"
    ELSE "barf"

\* the checks between the static branch and the trace switch: "skip" is a
\* return, "trace" falls through to the switch
classify_heap(p) ==
    IF ~gen_is_oldest(p) THEN "skip"
    ELSE IF "BF_NONMOVING" \in bd_flags(p)
    THEN IF "BF_LARGE" \in bd_flags(p)
         THEN IF "BF_NONMOVING_SWEEPING" \notin bd_flags(p) THEN "skip"
              ELSE IF "BF_MARKED" \in bd_flags(p) THEN "skip"
              ELSE "trace"
         ELSE IF mark[p] = nonmovingMarkEpoch THEN "skip"
              ELSE IF above_next_free_snap(p) /\ mark[p] = 0 THEN "skip"
              ELSE "trace"
    ELSE IF "BF_PINNED" \in bd_flags(p) THEN "skip"
    ELSE "barf"

\* cas(&stack->marking, marking, nonmovingMarkEpoch): the word after the CAS
cas_marking(word, expected) == IF word = expected THEN nonmovingMarkEpoch ELSE word

\* a claim test that ignores the value the CAS returns
stack_claimed_always(old) == TRUE

\* a claim test that lets no caller win
stack_claimed_never(old) == FALSE

\* the test on the value the CAS returns
stack_claimed(old) == old # nonmovingMarkEpoch

dbl_link_remove(bd, list) == SelectSeq(list, LAMBDA e : e # bd)
dbl_link_onto(bd, list) == <<bd>> \o list

\* a move that forgets n_nonmoving_large_blocks
move_large_object_uncounted(L, bd) ==
    [large |-> dbl_link_remove(bd, L.large),
     marked |-> dbl_link_onto(bd, L.marked),
     n_large |-> L.n_large,
     n_marked |-> L.n_marked + bd_blocks(bd)]

\* a move that unlinks the object without linking it onto the marked list
move_large_object_unlinked(L, bd) ==
    [large |-> dbl_link_remove(bd, L.large),
     marked |-> L.marked,
     n_large |-> L.n_large - bd_blocks(bd),
     n_marked |-> L.n_marked + bd_blocks(bd)]

\* the list move and block accounting done under nonmoving_large_objects_mutex,
\* on L = [large, marked, n_large, n_marked]
move_large_object(L, bd) ==
    [large |-> dbl_link_remove(bd, L.large),
     marked |-> dbl_link_onto(bd, L.marked),
     n_large |-> L.n_large - bd_blocks(bd),
     n_marked |-> L.n_marked + bd_blocks(bd)]

LargeLists ==
    [large |-> nonmoving_large_objects, marked |-> nonmoving_marked_large_objects,
     n_large |-> n_nonmoving_large_blocks, n_marked |-> n_nonmoving_marked_large_blocks]

SetLargeLists(L) ==
    /\ nonmoving_large_objects' = L.large
    /\ nonmoving_marked_large_objects' = L.marked
    /\ n_nonmoving_large_blocks' = L.n_large
    /\ n_nonmoving_marked_large_blocks' = L.n_marked

SeqToSet(sq) == {sq[i] : i \in 1..Len(sq)}

RECURSIVE SumBlocks(_)
SumBlocks(sq) == IF sq = << >> THEN 0 ELSE bd_blocks(sq[1]) + SumBlocks(Tail(sq))

(***************************************************************************)
(* Reachability in a heap (info, payload, indirectee).                     *)
(***************************************************************************)
RECURSIVE Pow2(_)
Pow2(k) == IF k = 0 THEN 1 ELSE 2 * Pow2(k - 1)

FramePointers(f) ==
    (IF f.type = "UPDATE_FRAME" THEN {f.slots[1]}
     ELSE {f.slots[i] : i \in {j \in 1..f.size : (f.bitmap \div Pow2(j - 1)) % 2 = 0}})
    \cup (IF f.srt # NULL THEN {f.srt} ELSE {})

PointersOf(inf, pl, ind, o) ==
    IF inf[o] \in {"IND", "BLACKHOLE", "IND_STATIC"} THEN {ind[o]} \cap Objs
    ELSE IF inf[o] = "STACK"
    THEN UNION {FramePointers(stack_frames(o)[k]) : k \in 1..Len(stack_frames(o))}
    ELSE (SeqToSet(pl[o]) \cup {srt_of(o)}) \cap Objs

RECURSIVE ReachableFrom(_, _, _, _)
ReachableFrom(inf, pl, ind, S) ==
    LET N == S \cup UNION {PointersOf(inf, pl, ind, o) : o \in S}
    IN  IF N = S THEN S ELSE ReachableFrom(inf, pl, ind, N)

\* the part of the non-moving heap the snapshot covers
SnapshotObjs == (SmallObjs \ AfterSnapObjs) \cup SweepingObjs

IsMarked(p) == IF p \in LargeObjs THEN p \in bf_marked ELSE mark[p] = nonmovingMarkEpoch

(***************************************************************************)
(* Initial states: the heap after nonmovingPrepareMark, the mark queue     *)
(* seeded with the roots, every remembered set one empty block.            *)
(***************************************************************************)
EmptyQueue(is_urs) == [blocks |-> init_mark_queue_, is_upd_rem_set |-> is_urs]

RECURSIVE WithNoOrigin(_)
WithNoOrigin(ps) == IF ps = << >> THEN << >> ELSE << <<ps[1], NoOrigin>> >> \o WithNoOrigin(Tail(ps))

SeededQueue(roots) ==
    push_closures([q |-> EmptyQueue(FALSE), list |-> << >>], WithNoOrigin(roots)).q

LiveWordsOf(D) ==
    LET RECURSIVE Sum(_)
        Sum(S) == IF S = {} THEN 0
                  ELSE LET o == CHOOSE e \in S : TRUE
                       IN  nonmovingSegmentBlockWords(o) + Sum(S \ {o})
    IN  Sum(D)

Racers == {"r1", "r2", "r3"}

\* the heap and collector state when the mark starts from the given roots
\* with the mark bytes M and the info pointers I
InitHeapInfo(roots, M, I) ==
    /\ info = I
    /\ payload = InitPayload
    /\ indirectee = [o \in Objs |-> NULL]
    /\ mark = M
    /\ bf_marked = {}
    /\ marking = [o \in Objs |-> 1]
    /\ nonmoving_large_objects = <<"a", "T">>
    /\ nonmoving_marked_large_objects = << >>
    /\ n_nonmoving_large_blocks = SumBlocks(<<"a", "T">>)
    /\ n_nonmoving_marked_large_blocks = 0
    /\ nonmoving_large_objects_mutex = NoThread
    /\ nonmoving_live_words = LiveWordsOf({o \in SmallObjs : M[o] = nonmovingMarkEpoch})
    /\ queue = SeededQueue(roots)
    /\ urs = [w \in Workers |-> EmptyQueue(TRUE)]
    /\ upd_rem_set_block_list = << >>
    /\ upd_rem_set_lock = NoThread
    /\ upd_rem_set_flush_count = 0
    /\ cond_woken = FALSE
    /\ fpc = [w \in Workers |-> "none"]
    /\ cinfo = NULL /\ cfi = 1 /\ cmarking = 0 /\ ci = 1
    /\ mpc = [w \in Workers |-> "idle"]
    /\ mobj = [w \in Workers |-> NULL]
    /\ mval = [w \in Workers |-> NULL]
    /\ mmarking = [w \in Workers |-> 0]
    /\ nops = 0
    /\ snap_reach = ReachableFrom(I, InitPayload, [o \in Objs |-> NULL],
                                  SeqToSet(roots) \cap Objs)
    /\ satb_passed = {}
    /\ stack_marks = [o \in Objs |-> 0]
    /\ large_moves = [o \in Objs |-> 0]
    /\ cas_lost = {}
    /\ premark_blocks = SumBlocks(<<"a", "T">>)
    /\ saved = NULL
    /\ blink = [r \in Racers |-> 0]
    /\ bret = [r \in Racers |-> FALSE]

InitHeapMarked(roots, M) == InitHeapInfo(roots, M, InitInfo)

\* the TSOs of the thread lists: a large object and two segment blocks, all
\* of the snapshot
ThreadObjs == {"T", "b", "x"}
END_TSO_QUEUE == "END_TSO_QUEUE"
\* nonmovingTidyThreads not called
NoThreads == [t |-> END_TSO_QUEUE, prev |-> NULL, old0 |-> << >>, new0 |-> << >>, left |-> << >>]

\* nonmovingTidyWeaks not called
NoTidy == [w |-> NULL, last_w |-> NULL, did_work |-> FALSE, old0 |-> << >>, new0 |-> << >>,
           rounds |-> 0]

\* no liveness query made so far
NoQuery == [p |-> NULL, m |-> 0, marked |-> FALSE, is_alive |-> FALSE, is_now_alive |-> FALSE]

\* a thread outside the locking functions; no shared write made so far
NoCall == [fn |-> NULL, ops |-> << >>]
NoWrite == [fn |-> NULL, var |-> NULL, held |-> {}]

\* weak pointer objects of the non-moving heap
Weaks == {"wk1", "wk2", "wk3"}
Threads == Workers \cup {GC}

\* block descriptors of the block allocator; 0 is the NULL block pointer
Bds == 1..MaxBds
\* a block of the free pool
FreeBd == [link |-> 0, entries |-> << >>, free |-> TRUE]
\* no call of nonmovingAddUpdRemSetBlocks in progress
NoAdd == [rset |-> NULL, then |-> NULL]

\* the parts of the state a specification does not exercise (all but own)
InitAux(own) ==
    /\ "blocks" \in own \/
          (/\ bdescr = [b \in Bds |-> FreeBd]
           /\ rset_blocks = [w \in Workers |-> 0]
           /\ block_list = 0
           /\ queue_blocks = 0
           /\ add_call = [t \in Threads |-> NoAdd]
           /\ old_block = 0
           /\ n_ents = 0
           /\ n_popped = << >>
           /\ discarded = {}
           /\ faults = {})
    /\ "res" \in own \/ nres = 0
    /\ "alive" \in own \/ alive = NoQuery
    /\ "locks" \in own \/
          (sm_mutex = NoThread /\ lpc = [t \in Threads |-> NoCall] /\ lock_log = NoWrite)
    /\ "queue" \in own \/ (/\ pushed = << >> /\ n_alloc = 0 /\ n_freed = 0
           /\ ret = NullEntry /\ expect = NullEntry /\ n_reset = 0)
    /\ "array" \in own \/
          (arr_ptrs = 0 /\ arr_i = 0 /\ arr_end = 0 /\ arr_traced = << >> /\ arr_starts = << >>)
    /\ "weaks" \in own \/
          (/\ weak_info = [w \in Weaks |-> "WEAK"]
           /\ weak_link = [w \in Weaks |-> NULL]
           /\ nonmoving_old_weak_ptr_list = NULL
           /\ nonmoving_weak_ptr_list = NULL
           /\ tw = NoTidy
           /\ weak_key = [w \in Weaks |-> "s"]
           /\ dead_weaks = NULL)
    /\ "threads" \in own \/
          (/\ what_next = [t \in ThreadObjs |-> "ThreadRunGHC"]
           /\ global_link = [t \in ThreadObjs |-> END_TSO_QUEUE]
           /\ nonmoving_old_threads = END_TSO_QUEUE
           /\ nonmoving_threads = END_TSO_QUEUE
           /\ resurrected_threads = END_TSO_QUEUE
           /\ tt = NoThreads)

\* the mark bytes when the small objects of D have been marked already: stale
\* below next_free_snap, 0 above
MarkBytes(D) ==
    [o \in Objs |-> IF o \in D THEN nonmovingMarkEpoch
                    ELSE IF o \in SmallObjs \ AfterSnapObjs THEN 1 ELSE 0]

InitHeap(roots, D) == InitHeapMarked(roots, MarkBytes(D))

Roots == <<"m", "t", "T">>

Init ==
    /\ InitHeap(Roots, {})
    /\ InitAux({})
    /\ static_link = [o \in Objs |-> 2]
    /\ cur = NULL
    /\ cpc = "pop"
    /\ bpc = [r \in Racers |-> "ret"]
    /\ phase = "concurrent"

(***************************************************************************)
(* The collector thread: nonmovingMark and mark_closure.                   *)
(***************************************************************************)
\* a NULL_ENTRY case that returns without looking at the global list
nonmovingMark_null_entry_returns(list) == "mark_ret"

\* case NULL_ENTRY: the test of upd_rem_set_block_list
nonmovingMark_null_entry(list) == IF list # << >> THEN "splice" ELSE "mark_ret"

\* markQueuePop at the head of the loop; on NULL_ENTRY the unlocked read of
\* upd_rem_set_block_list decides between the splice and the return
nonmovingMark_pop ==
    /\ cpc = "pop"
    /\ LET r == markQueuePop(queue) IN
        /\ queue' = r.q
        /\ IF r.ent.type = "MARK_CLOSURE"
           THEN cur' = r.ent.p /\ cpc' = "mark_closure" /\ UNCHANGED arr_i
           ELSE IF r.ent.type = "MARK_ARRAY"
           THEN cur' = r.ent.p /\ cpc' = "mark_array" /\ arr_i' = r.ent.start_index
           ELSE /\ cur' = cur
                /\ cpc' = nonmovingMark_null_entry(upd_rem_set_block_list)
                /\ UNCHANGED arr_i
    /\ UNCHANGED <<heapvars, markvars, largevars, urs, upd_rem_set_block_list, flushvars,
                   phase, cinfo, cfi, cmarking, ci, mutvars, histvars, bumpvars, nres, alive,
                   lockvars, qvars, arr_ptrs, arr_end, arr_traced, arr_starts, weakvars, threadvars, blockvars>>

\* the NULL_ENTRY case taking the global remembered set under upd_rem_set_lock
nonmovingMark_splice ==
    /\ cpc = "splice"
    /\ upd_rem_set_lock = NoThread
    /\ queue' = [queue EXCEPT !.blocks = upd_rem_set_block_list]
    /\ upd_rem_set_block_list' = << >>
    /\ n_freed' = n_freed + 1
    /\ cpc' = "pop"
    /\ UNCHANGED <<heapvars, markvars, largevars, urs, flushvars,
                   phase, cur, cinfo, cfi, cmarking, ci, mutvars, histvars, bumpvars,
                   nres, alive, lockvars, pushed, n_alloc, ret, expect, n_reset, arrvars,
                   weakvars, threadvars, blockvars>>

\* mark_closure up to the trace switch
mark_closure_classify ==
    /\ cpc = "mark_closure"
    /\ IF ~HEAP_ALLOCED_GC(cur)
       THEN LET type == info[cur] IN
            IF type \in StaticIgnoredTypes
            THEN cpc' = "pop" /\ UNCHANGED <<static_link, cinfo, cfi, cmarking>>
            ELSE IF type \in StaticLinkedTypes
            THEN IF static_wants_bump(type, cur) /\ ~bump_is_current(static_link[cur])
                 THEN /\ static_link' = [static_link EXCEPT ![cur] = bump_new_link(@)]
                      /\ cinfo' = type /\ cfi' = 1 /\ cpc' = "trace"
                      /\ UNCHANGED cmarking
                 ELSE cpc' = "pop" /\ UNCHANGED <<static_link, cinfo, cfi, cmarking>>
            ELSE IF type = "WHITEHOLE"
            THEN cpc' = "whitehole" /\ UNCHANGED <<static_link, cinfo, cfi, cmarking>>
            ELSE cpc' = "barf" /\ UNCHANGED <<static_link, cinfo, cfi, cmarking>>
       ELSE /\ UNCHANGED static_link
            /\ IF classify_heap(cur) = "skip"
               THEN cpc' = "pop" /\ UNCHANGED <<cinfo, cfi, cmarking>>
               ELSE IF classify_heap(cur) = "barf"
               THEN cpc' = "barf" /\ UNCHANGED <<cinfo, cfi, cmarking>>
               ELSE IF info[cur] = "WHITEHOLE"
               THEN cpc' = "whitehole" /\ UNCHANGED <<cinfo, cfi, cmarking>>
               ELSE IF info[cur] \notin TracedTypes
               THEN cpc' = "barf" /\ UNCHANGED <<cinfo, cfi, cmarking>>
               ELSE /\ cinfo' = info[cur]
                    /\ cfi' = 1
                    /\ cmarking' = IF info[cur] = "STACK" THEN marking[cur] ELSE cmarking
                    /\ cpc' = IF info[cur] = "STACK" THEN "stack_cas" ELSE "trace"
    /\ UNCHANGED <<heapvars, mark, bf_marked, marking, nonmoving_live_words, largevars,
                   queuevars, flushvars, phase, cur, ci, mutvars, histvars, bumpvars, auxvars>>

\* a marker that waits for the thread that claimed the stack
mark_closure_lost_claim_waits == "stack_wait"

\* case STACK, the CAS lost: return, the loop goes on with the next pop
mark_closure_lost_claim == "pop"

\* case STACK: the CAS on stack->marking
mark_closure_stack_cas ==
    /\ cpc = "stack_cas"
    /\ LET old == marking[cur] IN
        /\ marking' = [marking EXCEPT ![cur] = cas_marking(old, cmarking)]
        /\ IF stack_claimed(old)
           THEN /\ stack_marks' = [stack_marks EXCEPT ![cur] = @ + 1]
                /\ cpc' = "trace"
                /\ UNCHANGED cas_lost
           ELSE /\ cas_lost' = cas_lost \cup {GC}
                /\ cpc' = mark_closure_lost_claim
                /\ UNCHANGED stack_marks
    /\ UNCHANGED <<heapvars, mark, bf_marked, static_link, nonmoving_live_words, largevars,
                   queuevars, flushvars, phase, cur, cinfo, cfi, cmarking, ci, mutvars,
                   snap_reach, satb_passed, large_moves, premark_blocks, saved, bumpvars, auxvars>>

\* case WHITEHOLE: while (get_volatile_itbl(p)->type == WHITEHOLE); goto try_again
mark_closure_whitehole ==
    /\ cpc = "whitehole"
    /\ info[cur] # "WHITEHOLE"
    /\ cpc' = "mark_closure"
    /\ UNCHANGED <<heapvars, markvars, largevars, queuevars, flushvars, phase, cur, cinfo, cfi,
                   cmarking, ci, mutvars, histvars, bumpvars, auxvars>>

\* the trace switch, one push per step, then the mark of a small object
mark_closure_trace ==
    /\ cpc = "trace"
    /\ LET tr == IF HEAP_ALLOCED_GC(cur) THEN trace_closure(cinfo, cur)
                 ELSE trace_static(cinfo, cur)
       IN  IF cfi <= Len(tr)
           THEN /\ queue' = IF HEAP_ALLOCED_GC(cur) /\ cinfo \in ArrayTypes
                             THEN push_array([q |-> queue, list |-> << >>], cur, 0).q
                             ELSE push_closure([q |-> queue, list |-> << >>],
                                               tr[cfi][1], tr[cfi][2]).q
                /\ cfi' = cfi + 1
                /\ UNCHANGED <<cpc, mark, nonmoving_live_words>>
           ELSE IF HEAP_ALLOCED_GC(cur) /\ cinfo = "STACK"
                   /\ mark_stack_aborts(stack_frames(cur))
           THEN cpc' = "barf" /\ UNCHANGED <<queue, cfi, mark, nonmoving_live_words>>
           ELSE IF ~HEAP_ALLOCED_GC(cur)
           THEN cpc' = "pop" /\ UNCHANGED <<queue, cfi, mark, nonmoving_live_words>>
           ELSE IF "BF_LARGE" \in bd_flags(cur)
           THEN cpc' = "large_lock" /\ UNCHANGED <<queue, cfi, mark, nonmoving_live_words>>
           ELSE /\ mark' = [mark EXCEPT ![cur] = nonmovingMarkEpoch]
                /\ nonmoving_live_words' = nonmoving_live_words + nonmovingSegmentBlockWords(cur)
                /\ cpc' = "pop"
                /\ UNCHANGED <<queue, cfi>>
    /\ UNCHANGED <<heapvars, bf_marked, marking, static_link, largevars, urs,
                   upd_rem_set_block_list, flushvars, phase, cur, cinfo, cmarking, ci,
                   mutvars, histvars, bumpvars, auxvars>>

\* ACQUIRE_LOCK(&nonmoving_large_objects_mutex) and the test of BF_MARKED
mark_closure_large_lock ==
    /\ cpc = "large_lock"
    /\ nonmoving_large_objects_mutex = NoThread
    /\ nonmoving_large_objects_mutex' = GC
    /\ cpc' = IF "BF_MARKED" \in bd_flags(cur) THEN "large_unlock" ELSE "large_move"
    /\ UNCHANGED <<heapvars, markvars, nonmoving_large_objects, nonmoving_marked_large_objects,
                   n_nonmoving_large_blocks, n_nonmoving_marked_large_blocks, queuevars,
                   flushvars, phase, cur, cinfo, cfi, cmarking, ci, mutvars, histvars, bumpvars, auxvars>>

mark_closure_large_move ==
    /\ cpc = "large_move"
    /\ SetLargeLists(move_large_object(LargeLists, cur))
    /\ large_moves' = [large_moves EXCEPT ![cur] = @ + 1]
    /\ cpc' = "large_flag"
    /\ UNCHANGED <<heapvars, markvars, nonmoving_large_objects_mutex, queuevars, flushvars,
                   phase, cur, cinfo, cfi, cmarking, ci, mutvars, snap_reach, satb_passed,
                   stack_marks, cas_lost, premark_blocks, saved, bumpvars, auxvars>>

mark_closure_large_flag ==
    /\ cpc = "large_flag"
    /\ bf_marked' = bf_marked \cup {cur}
    /\ cpc' = "large_unlock"
    /\ UNCHANGED <<heapvars, mark, marking, static_link, nonmoving_live_words, largevars,
                   queuevars, flushvars, phase, cur, cinfo, cfi, cmarking, ci, mutvars,
                   histvars, bumpvars, auxvars>>

mark_closure_large_unlock ==
    /\ cpc = "large_unlock"
    /\ nonmoving_large_objects_mutex' = NoThread
    /\ cpc' = "pop"
    /\ UNCHANGED <<heapvars, markvars, nonmoving_large_objects, nonmoving_marked_large_objects,
                   n_nonmoving_large_blocks, n_nonmoving_marked_large_blocks, queuevars,
                   flushvars, phase, cur, cinfo, cfi, cmarking, ci, mutvars, histvars, bumpvars, auxvars>>

Collector ==
    \/ nonmovingMark_pop
    \/ nonmovingMark_splice
    \/ mark_closure_classify
    \/ mark_closure_stack_cas
    \/ mark_closure_trace
    \/ mark_closure_large_lock
    \/ mark_closure_large_move
    \/ mark_closure_large_flag
    \/ mark_closure_large_unlock

(***************************************************************************)
(* The mutators.  An overwrite is the barrier call on the value about to   *)
(* be destroyed, then the store.                                           *)
(***************************************************************************)
\* a barrier that records nothing
updateRemembSetPushClosure_dropped(st, p) == st

\* updateRemembSetPushClosure on st = [q, list]
updateRemembSetPushClosure(st, p) ==
    IF ~check_in_nonmoving_heap(p) THEN st ELSE push_closure(st, p, NoOrigin)

\* updateRemembSetPushThunk on st = [q, list]: the info pointer read, then
\* updateRemembSetPushThunkEager
updateRemembSetPushThunk(st, thunk) ==
    push_closures(st, updateRemembSetPushThunkEager(info[thunk], thunk))

MutVars == {"m"}
Thunks == {"t", "u"}
StoredValues == {"b", "y", "n"}
UpdateValues == {"b"}

SetUrs(w, st) ==
    /\ urs' = [urs EXCEPT ![w] = st.q]
    /\ upd_rem_set_block_list' = st.list

UrsOf(w) == [q |-> urs[w], list |-> upd_rem_set_block_list]

MutActive(w) == phase = "concurrent" /\ mpc[w] = "idle" /\ nops < MaxMutOps

\* a store to a mutable variable: the barrier on the old value
mutvar_barrier(w) ==
    /\ MutActive(w)
    /\ upd_rem_set_lock = NoThread
    /\ \E mv \in MutVars, v \in StoredValues :
        /\ SetUrs(w, updateRemembSetPushClosure(UrsOf(w), payload[mv][1]))
        /\ satb_passed' = satb_passed \cup {payload[mv][1]}
        /\ mobj' = [mobj EXCEPT ![w] = mv]
        /\ mval' = [mval EXCEPT ![w] = v]
    /\ mpc' = [mpc EXCEPT ![w] = "write"]
    /\ nops' = nops + 1
    /\ UNCHANGED <<heapvars, markvars, largevars, queue, flushvars, collvars, mmarking,
                   snap_reach, stack_marks, large_moves, cas_lost, premark_blocks, saved,
                   bumpvars, auxvars>>

mutvar_write(w) ==
    /\ mpc[w] = "write"
    /\ payload' = [payload EXCEPT ![mobj[w]] = <<mval[w]>>]
    /\ info' = [info EXCEPT ![mobj[w]] = "MUT_VAR_DIRTY"]
    /\ mpc' = [mpc EXCEPT ![w] = "idle"]
    /\ UNCHANGED <<indirectee, markvars, largevars, queuevars, flushvars, collvars,
                   mobj, mval, mmarking, nops, histvars, bumpvars, auxvars>>

\* the update of an evaluated thunk: the barrier on the thunk
thunk_barrier(w) ==
    /\ MutActive(w)
    /\ upd_rem_set_lock = NoThread
    /\ \E th \in Thunks, v \in UpdateValues :
        /\ info[th] \notin {"BLACKHOLE", "IND"}
        /\ IF updateRemembSetPushThunkEager_aborts(info[th])
           THEN /\ UNCHANGED <<urs, upd_rem_set_block_list>>
                /\ mpc' = [mpc EXCEPT ![w] = "barf"]
           ELSE /\ SetUrs(w, updateRemembSetPushThunk(UrsOf(w), th))
                /\ mpc' = [mpc EXCEPT ![w] = "update"]
        /\ mobj' = [mobj EXCEPT ![w] = th]
        /\ mval' = [mval EXCEPT ![w] = v]
    /\ nops' = nops + 1
    /\ UNCHANGED <<heapvars, markvars, largevars, queue, flushvars, collvars, mmarking,
                   histvars, bumpvars, auxvars>>

thunk_update(w) ==
    /\ mpc[w] = "update"
    /\ indirectee' = [indirectee EXCEPT ![mobj[w]] = mval[w]]
    /\ info' = [info EXCEPT ![mobj[w]] = "BLACKHOLE"]
    /\ mpc' = [mpc EXCEPT ![w] = "idle"]
    /\ UNCHANGED <<payload, markvars, largevars, queuevars, flushvars, collvars,
                   mobj, mval, mmarking, nops, histvars, bumpvars, auxvars>>

(***************************************************************************)
(* The dirty-object barriers.                                              *)
(***************************************************************************)
TSOs == {"T"}
Stacks == {"K"}

\* updateRemembSetPushTSO up to the call of finish_upd_rem_set_mark
updateRemembSetPushTSO(w) ==
    /\ MutActive(w)
    /\ upd_rem_set_lock = NoThread
    /\ \E tso \in TSOs :
        /\ mobj' = [mobj EXCEPT ![w] = tso]
        /\ IF needs_upd_rem_set_mark(tso)
           THEN /\ SetUrs(w, push_closures(UrsOf(w), mark_tso(tso)))
                /\ mpc' = [mpc EXCEPT ![w] = "finish"]
           ELSE UNCHANGED <<urs, upd_rem_set_block_list, mpc>>
    /\ nops' = nops + 1
    /\ UNCHANGED <<heapvars, markvars, largevars, queue, flushvars, collvars, mval, mmarking,
                   histvars, bumpvars, auxvars>>

\* updateRemembSetPushStack up to the read of stack->marking
updateRemembSetPushStack(w) ==
    /\ MutActive(w)
    /\ \E stack \in Stacks :
        /\ mobj' = [mobj EXCEPT ![w] = stack]
        /\ IF needs_upd_rem_set_mark(stack)
           THEN /\ mmarking' = [mmarking EXCEPT ![w] = marking[stack]]
                /\ mpc' = [mpc EXCEPT ![w] = "stack_cas"]
           ELSE UNCHANGED <<mmarking, mpc>>
    /\ nops' = nops + 1
    /\ UNCHANGED <<heapvars, markvars, largevars, queuevars, flushvars, collvars, mval,
                   histvars, bumpvars, auxvars>>

\* the CAS of updateRemembSetPushStack and, for the winner, mark_stack
updateRemembSetPushStack_cas(w) ==
    /\ mpc[w] = "stack_cas"
    /\ upd_rem_set_lock = NoThread
    /\ LET old == marking[mobj[w]] IN
        /\ marking' = [marking EXCEPT ![mobj[w]] = cas_marking(old, mmarking[w])]
        /\ IF stack_claimed(old)
           THEN /\ SetUrs(w, push_closures(UrsOf(w), mark_stack(mobj[w])))
                /\ stack_marks' = [stack_marks EXCEPT ![mobj[w]] = @ + 1]
                /\ mpc' = [mpc EXCEPT ![w] = "finish"]
                /\ UNCHANGED cas_lost
           ELSE /\ cas_lost' = cas_lost \cup {w}
                /\ mpc' = [mpc EXCEPT ![w] = "spin"]
                /\ UNCHANGED <<urs, upd_rem_set_block_list, stack_marks>>
    /\ UNCHANGED <<heapvars, mark, bf_marked, static_link, nonmoving_live_words, largevars,
                   queue, flushvars, collvars, mobj, mval, mmarking, nops, snap_reach,
                   satb_passed, large_moves, premark_blocks, saved, bumpvars, auxvars>>

\* while (needs_upd_rem_set_mark(stack));
updateRemembSetPushStack_spin(w) ==
    /\ mpc[w] = "spin"
    /\ ~needs_upd_rem_set_mark(mobj[w])
    /\ mpc' = [mpc EXCEPT ![w] = "idle"]
    /\ UNCHANGED <<heapvars, markvars, largevars, queuevars, flushvars, collvars,
                   mobj, mval, mmarking, nops, histvars, bumpvars, auxvars>>

\* finish_upd_rem_set_mark: the small-object branch, or the lock and the test
finish_upd_rem_set_mark(w) ==
    /\ mpc[w] = "finish"
    /\ IF "BF_LARGE" \in bd_flags(mobj[w])
       THEN /\ nonmoving_large_objects_mutex = NoThread
            /\ nonmoving_large_objects_mutex' = w
            /\ mpc' = [mpc EXCEPT ![w] = IF "BF_MARKED" \in bd_flags(mobj[w])
                                         THEN "finish_unlock" ELSE "finish_flag"]
            /\ UNCHANGED mark
       ELSE /\ mark' = [mark EXCEPT ![mobj[w]] = nonmovingMarkEpoch]
            /\ mpc' = [mpc EXCEPT ![w] = "idle"]
            /\ UNCHANGED nonmoving_large_objects_mutex
    /\ UNCHANGED <<heapvars, bf_marked, marking, static_link, nonmoving_live_words,
                   nonmoving_large_objects, nonmoving_marked_large_objects,
                   n_nonmoving_large_blocks, n_nonmoving_marked_large_blocks, queuevars,
                   flushvars, collvars, mobj, mval, mmarking, nops, histvars, bumpvars, auxvars>>

finish_upd_rem_set_mark_flag(w) ==
    /\ mpc[w] = "finish_flag"
    /\ bf_marked' = bf_marked \cup {mobj[w]}
    /\ mpc' = [mpc EXCEPT ![w] = "finish_move"]
    /\ UNCHANGED <<heapvars, mark, marking, static_link, nonmoving_live_words, largevars,
                   queuevars, flushvars, collvars, mobj, mval, mmarking, nops, histvars,
                   bumpvars, auxvars>>

finish_upd_rem_set_mark_move(w) ==
    /\ mpc[w] = "finish_move"
    /\ SetLargeLists(move_large_object(LargeLists, mobj[w]))
    /\ large_moves' = [large_moves EXCEPT ![mobj[w]] = @ + 1]
    /\ mpc' = [mpc EXCEPT ![w] = "finish_unlock"]
    /\ UNCHANGED <<heapvars, markvars, nonmoving_large_objects_mutex, queuevars, flushvars,
                   collvars, mobj, mval, mmarking, nops, snap_reach, satb_passed,
                   stack_marks, cas_lost, premark_blocks, saved, bumpvars, auxvars>>

finish_upd_rem_set_mark_unlock(w) ==
    /\ mpc[w] = "finish_unlock"
    /\ nonmoving_large_objects_mutex' = NoThread
    /\ mpc' = [mpc EXCEPT ![w] = "idle"]
    /\ UNCHANGED <<heapvars, markvars, nonmoving_large_objects, nonmoving_marked_large_objects,
                   n_nonmoving_large_blocks, n_nonmoving_marked_large_blocks, queuevars,
                   flushvars, collvars, mobj, mval, mmarking, nops, histvars, bumpvars, auxvars>>

(***************************************************************************)
(* The flush protocol.  nonmovingFlushCapUpdRemSetBlocks is three steps:   *)
(* the transfer under upd_rem_set_lock, the atomic increment, the signal.  *)
(***************************************************************************)
\* signalCondition: wakes the collector if it is parked on the condition
signalCondition(woken) == IF cpc = "wait_parked" THEN TRUE ELSE woken

\* a reset that leaves the head where it is
reset_upd_rem_set_keep(q) == q

\* a reset that sets the head to 1
reset_upd_rem_set_head1(q) ==
    [q EXCEPT !.blocks = << SubSeq(@[1], 1, IF Len(@[1]) > 0 THEN 1 ELSE 0) >> \o Tail(@)]

reset_upd_rem_set(q) == [q EXCEPT !.blocks = << << >> >> \o Tail(@)]

\* nonmovingBeginFlush: the counter reset and stopAllCapabilitiesWith, which
\* returns once no mutator is running; F is the set of workers the stop request
\* reaches in the scheduler, each of which will flush on its own
nonmovingBeginFlush ==
    /\ cpc = "mark_ret"
    /\ phase = "concurrent"
    /\ \A w \in Workers : mpc[w] = "idle"
    /\ upd_rem_set_flush_count' = 0
    /\ \E F \in SUBSET Workers : fpc' = [w \in Workers |-> IF w \in F THEN "add" ELSE "none"]
    /\ phase' = "flush"
    /\ ci' = 1
    /\ cpc' = "flush_add"
    /\ UNCHANGED <<heapvars, markvars, largevars, queuevars, upd_rem_set_lock, cond_woken,
                   cur, cinfo, cfi, cmarking, mutvars, histvars, bumpvars, auxvars>>

\* the loop of nonmovingBeginFlush over capabilities[ci]
nonmovingBeginFlush_add ==
    /\ cpc = "flush_add"
    /\ upd_rem_set_lock = NoThread
    /\ SetUrs(capabilities[ci], nonmovingAddUpdRemSetBlocks(UrsOf(capabilities[ci])))
    /\ cpc' = "flush_inc"
    /\ UNCHANGED <<heapvars, markvars, largevars, queue, flushvars, phase, cur, cinfo, cfi,
                   cmarking, ci, mutvars, histvars, bumpvars, auxvars>>

nonmovingBeginFlush_inc ==
    /\ cpc = "flush_inc"
    /\ upd_rem_set_flush_count' = upd_rem_set_flush_count + 1
    /\ cpc' = "flush_signal"
    /\ UNCHANGED <<heapvars, markvars, largevars, queuevars, upd_rem_set_lock, cond_woken,
                   fpc, phase, cur, cinfo, cfi, cmarking, ci, mutvars, histvars, bumpvars, auxvars>>

nonmovingBeginFlush_signal ==
    /\ cpc = "flush_signal"
    /\ cond_woken' = signalCondition(cond_woken)
    /\ ci' = ci + 1
    /\ cpc' = IF ci < n_capabilities THEN "flush_add" ELSE "wait"
    /\ UNCHANGED <<heapvars, markvars, largevars, queuevars, upd_rem_set_lock,
                   upd_rem_set_flush_count, fpc, phase, cur, cinfo, cfi, cmarking, mutvars,
                   histvars, bumpvars, auxvars>>

\* a worker's own nonmovingFlushCapUpdRemSetBlocks(cap)
nonmovingFlushCapUpdRemSetBlocks_add(w) ==
    /\ fpc[w] = "add"
    /\ upd_rem_set_lock = NoThread
    /\ SetUrs(w, nonmovingAddUpdRemSetBlocks(UrsOf(w)))
    /\ fpc' = [fpc EXCEPT ![w] = "inc"]
    /\ UNCHANGED <<heapvars, markvars, largevars, queue, upd_rem_set_lock,
                   upd_rem_set_flush_count, cond_woken, collvars, mutvars, histvars, bumpvars, auxvars>>

nonmovingFlushCapUpdRemSetBlocks_inc(w) ==
    /\ fpc[w] = "inc"
    /\ upd_rem_set_flush_count' = upd_rem_set_flush_count + 1
    /\ fpc' = [fpc EXCEPT ![w] = "signal"]
    /\ UNCHANGED <<heapvars, markvars, largevars, queuevars, upd_rem_set_lock, cond_woken,
                   collvars, mutvars, histvars, bumpvars, auxvars>>

nonmovingFlushCapUpdRemSetBlocks_signal(w) ==
    /\ fpc[w] = "signal"
    /\ cond_woken' = signalCondition(cond_woken)
    /\ fpc' = [fpc EXCEPT ![w] = "done"]
    /\ UNCHANGED <<heapvars, markvars, largevars, queuevars, upd_rem_set_lock,
                   upd_rem_set_flush_count, collvars, mutvars, histvars, bumpvars, auxvars>>

\* nonmovingWaitForFlush: the lock and the test of the counter; a true result
\* starts the last pass of the mark
nonmovingWaitForFlush ==
    /\ cpc = "wait"
    /\ upd_rem_set_lock = NoThread
    /\ IF upd_rem_set_flush_count = n_capabilities
       THEN /\ phase' = "final"
            /\ cpc' = "pop"
            /\ UNCHANGED upd_rem_set_lock
       ELSE /\ upd_rem_set_lock' = GC
            /\ cpc' = "wait_cond"
            /\ UNCHANGED phase
    /\ UNCHANGED <<heapvars, markvars, largevars, queuevars, upd_rem_set_flush_count,
                   cond_woken, fpc, cur, cinfo, cfi, cmarking, ci, mutvars, histvars, bumpvars, auxvars>>

\* waitCondition releasing the lock and parking the collector
nonmovingWaitForFlush_park ==
    /\ cpc = "wait_cond"
    /\ upd_rem_set_lock' = NoThread
    /\ cond_woken' = FALSE
    /\ cpc' = "wait_parked"
    /\ UNCHANGED <<heapvars, markvars, largevars, queuevars, upd_rem_set_flush_count, fpc,
                   phase, cur, cinfo, cfi, cmarking, ci, mutvars, histvars, bumpvars, auxvars>>

\* the wake-up: the lock re-acquired and released, the result false, and the
\* next call of nonmovingWaitForFlush
nonmovingWaitForFlush_wake ==
    /\ cpc = "wait_parked"
    /\ cond_woken
    /\ upd_rem_set_lock = NoThread
    /\ cond_woken' = FALSE
    /\ cpc' = "wait"
    /\ UNCHANGED <<heapvars, markvars, largevars, queuevars, upd_rem_set_lock,
                   upd_rem_set_flush_count, fpc, phase, cur, cinfo, cfi, cmarking, ci,
                   mutvars, histvars, bumpvars, auxvars>>

\* resurrectThreads, run by the collector after the last pass with the workers
\* still stopped: raiseAsync runs the write barrier on a capability's
\* remembered set (Note [Unintentional marking in resurrectThreads])
resurrectThreads_push ==
    /\ cpc = "mark_ret"
    /\ phase = "final"
    /\ nres < MaxResurrect
    /\ upd_rem_set_lock = NoThread
    /\ \E w \in Workers, p \in TSOs : SetUrs(w, updateRemembSetPushClosure(UrsOf(w), p))
    /\ nres' = nres + 1
    /\ UNCHANGED <<heapvars, markvars, largevars, queue, flushvars, collvars, mutvars,
                   histvars, bumpvars, alive, lockvars, qvars, arrvars, weakvars, threadvars, blockvars>>

nonmovingFinishFlush ==
    /\ cpc = "mark_ret"
    /\ phase = "final"
    /\ urs' = [w \in Workers |-> reset_upd_rem_set(urs[w])]
    /\ upd_rem_set_block_list' = << >>
    /\ phase' = "done"
    /\ cpc' = "done"
    /\ UNCHANGED <<heapvars, markvars, largevars, queue, flushvars, cur, cinfo, cfi,
                   cmarking, ci, mutvars, histvars, bumpvars, auxvars>>

Flush ==
    \/ nonmovingBeginFlush
    \/ nonmovingBeginFlush_add
    \/ nonmovingBeginFlush_inc
    \/ nonmovingBeginFlush_signal
    \/ \E w \in Workers : nonmovingFlushCapUpdRemSetBlocks_add(w)
    \/ \E w \in Workers : nonmovingFlushCapUpdRemSetBlocks_inc(w)
    \/ \E w \in Workers : nonmovingFlushCapUpdRemSetBlocks_signal(w)
    \/ nonmovingWaitForFlush
    \/ nonmovingWaitForFlush_park
    \/ nonmovingWaitForFlush_wake
    \/ resurrectThreads_push
    \/ nonmovingFinishFlush

Stores ==
    \/ \E w \in Workers : mutvar_barrier(w)
    \/ \E w \in Workers : mutvar_write(w)
    \/ \E w \in Workers : thunk_barrier(w)
    \/ \E w \in Workers : thunk_update(w)

Next == Collector \/ Stores \/ Flush

Spec == Init /\ [][Next]_vars

(***************************************************************************)
(* The dirty-object barriers racing with the collector on a thread and its *)
(* stack.                                                                  *)
(***************************************************************************)
DirtyRoots == <<"T">>

InitDirty ==
    /\ InitHeap(DirtyRoots, {})
    /\ InitAux({})
    /\ static_link = [o \in Objs |-> 2]
    /\ cur = NULL
    /\ cpc = "pop"
    /\ bpc = [r \in Racers |-> "ret"]
    /\ phase = "concurrent"

Dirty ==
    \/ \E w \in Workers : updateRemembSetPushTSO(w)
    \/ \E w \in Workers : updateRemembSetPushStack(w)
    \/ \E w \in Workers : updateRemembSetPushStack_cas(w)
    \/ \E w \in Workers : updateRemembSetPushStack_spin(w)
    \/ \E w \in Workers : finish_upd_rem_set_mark(w)
    \/ \E w \in Workers : finish_upd_rem_set_mark_flag(w)
    \/ \E w \in Workers : finish_upd_rem_set_mark_move(w)
    \/ \E w \in Workers : finish_upd_rem_set_mark_unlock(w)

NextDirty == Collector \/ Dirty

SpecDirty == InitDirty /\ [][NextDirty]_vars

(***************************************************************************)
(* bump_static_flag called by racing markers on one static closure.        *)
(***************************************************************************)
RacedStatic == "s"
\* link words a static closure can hold when a mark reaches it: never linked,
\* linked in the previous cycle, linked in this one (with and without a link)
InitLinks == {0, 2, 4, 6, 1, 5}

InitStatic ==
    /\ InitHeap(<< >>, {})
    /\ InitAux({})
    /\ \E l \in InitLinks : static_link = [o \in Objs |-> IF o = RacedStatic THEN l ELSE 2]
    /\ cur = NULL
    /\ cpc = "mark_ret"
    /\ phase = "concurrent"
    /\ bpc = [r \in Racers |-> "read"]

\* the read of *link_field and the test of its low bits
bump_static_flag_read(r) ==
    /\ bpc[r] = "read"
    /\ blink' = [blink EXCEPT ![r] = static_link[RacedStatic]]
    /\ IF bump_is_current(static_link[RacedStatic])
       THEN bret' = [bret EXCEPT ![r] = FALSE] /\ bpc' = [bpc EXCEPT ![r] = "ret"]
       ELSE bret' = bret /\ bpc' = [bpc EXCEPT ![r] = "cas"]
    /\ UNCHANGED <<heapvars, markvars, largevars, queuevars, flushvars, collvars, mutvars,
                   histvars, auxvars>>

\* cas(link_field, link, new) == link
bump_static_flag_cas(r) ==
    /\ bpc[r] = "cas"
    /\ IF static_link[RacedStatic] = blink[r]
       THEN /\ static_link' = [static_link EXCEPT ![RacedStatic] = bump_new_link(blink[r])]
            /\ bret' = [bret EXCEPT ![r] = TRUE]
            /\ bpc' = [bpc EXCEPT ![r] = "ret"]
       ELSE /\ bpc' = [bpc EXCEPT ![r] = "read"]
            /\ UNCHANGED <<static_link, bret>>
    /\ UNCHANGED <<heapvars, mark, bf_marked, marking, nonmoving_live_words, largevars,
                   queuevars, flushvars, collvars, mutvars, histvars, blink, auxvars>>

NextStatic ==
    \/ \E r \in Racers : bump_static_flag_read(r)
    \/ \E r \in Racers : bump_static_flag_cas(r)

SpecStatic == InitStatic /\ [][NextStatic]_vars

(***************************************************************************)
(* mark_closure called twice on the same closure, nothing else running.    *)
(***************************************************************************)
\* what a mark_closure call can change
MarkState ==
    [mark |-> mark, bf_marked |-> bf_marked, marking |-> marking, static_link |-> static_link,
     large |-> LargeLists, live_words |-> nonmoving_live_words, queue |-> queue]

InitIdem ==
    /\ \E D \in SUBSET {"b", "x"} : InitHeap(<< >>, D)
    /\ InitAux({})
    /\ static_link = [o \in Objs |-> 2]
    /\ \E p \in Objs : cur = p
    /\ cpc = "mark_closure"
    /\ bpc = [r \in Racers |-> "ret"]
    /\ phase = "first"

\* the first call has returned: the same closure is marked again
mark_closure_again ==
    /\ cpc = "pop"
    /\ phase = "first"
    /\ saved' = MarkState
    /\ phase' = "second"
    /\ cpc' = "mark_closure"
    /\ UNCHANGED <<heapvars, markvars, largevars, queuevars, flushvars, cur, cinfo, cfi,
                   cmarking, ci, mutvars, snap_reach, satb_passed, stack_marks, large_moves,
                   cas_lost, premark_blocks, bumpvars, auxvars>>

mark_closure_twice ==
    /\ cpc = "pop"
    /\ phase = "second"
    /\ phase' = "twice"
    /\ cpc' = "returned"
    /\ UNCHANGED <<heapvars, markvars, largevars, queuevars, flushvars, cur, cinfo, cfi,
                   cmarking, ci, mutvars, histvars, bumpvars, auxvars>>

NextIdem ==
    \/ mark_closure_classify
    \/ mark_closure_stack_cas
    \/ mark_closure_trace
    \/ mark_closure_large_lock
    \/ mark_closure_large_move
    \/ mark_closure_large_flag
    \/ mark_closure_large_unlock
    \/ mark_closure_again
    \/ mark_closure_twice

SpecIdem == InitIdem /\ [][NextIdem]_vars

(***************************************************************************)
(* Lock discipline.  Every function of the mark phase that takes a lock or *)
(* writes upd_rem_set_block_list or upd_rem_set_flush_count, as the        *)
(* sequence of its lock operations and shared writes; the threads run      *)
(* these functions concurrently.                                           *)
(***************************************************************************)
Locks == {"upd_rem_set_lock", "sm_mutex", "nonmoving_large_objects_mutex"}

\* a variant in which markQueuePop takes upd_rem_set_lock inside the
\* storage-manager lock
LockOps_sm_outer(fn) ==
    IF fn = "markQueuePop"
    THEN << <<"acq", "sm_mutex">>, <<"acq", "upd_rem_set_lock">>,
            <<"rel", "upd_rem_set_lock">>, <<"rel", "sm_mutex">> >>
    ELSE << <<"acq", "upd_rem_set_lock">>, <<"write", "upd_rem_set_block_list">>,
            <<"rel", "upd_rem_set_lock">> >>

RECURSIVE LockOps(_)
LockOps(fn) ==
    CASE fn = "nonmovingAddUpdRemSetBlocks" ->
            << <<"acq", "upd_rem_set_lock">>, <<"write", "upd_rem_set_block_list">>,
               <<"rel", "upd_rem_set_lock">>, <<"acq", "sm_mutex">>, <<"rel", "sm_mutex">> >>
      [] fn = "push" ->
            << <<"acq", "sm_mutex">>, <<"rel", "sm_mutex">> >>
      [] fn = "markQueuePop" ->
            << <<"acq", "sm_mutex">>, <<"rel", "sm_mutex">> >>
      [] fn = "nonmovingFlushCapUpdRemSetBlocks" ->
            LockOps("nonmovingAddUpdRemSetBlocks")
                \o << <<"write", "upd_rem_set_flush_count">> >>
      [] fn = "nonmovingBeginFlush" ->
            << <<"write", "upd_rem_set_flush_count">> >>
                \o LockOps("nonmovingFlushCapUpdRemSetBlocks")
                \o LockOps("nonmovingFlushCapUpdRemSetBlocks")
      [] fn = "nonmovingWaitForFlush" ->
            << <<"acq", "upd_rem_set_lock">>, <<"rel", "upd_rem_set_lock">> >>
      [] fn = "nonmovingWaitForFlush_wait" ->
            << <<"acq", "upd_rem_set_lock">>, <<"rel", "upd_rem_set_lock">>,
               <<"acq", "upd_rem_set_lock">>, <<"rel", "upd_rem_set_lock">> >>
      [] fn = "nonmovingFinishFlush" ->
            << <<"acq", "sm_mutex">>, <<"rel", "sm_mutex">>,
               <<"write", "upd_rem_set_block_list">> >>
      [] fn = "nonmovingMark" ->
            << <<"acq", "upd_rem_set_lock">>, <<"write", "upd_rem_set_block_list">>,
               <<"rel", "upd_rem_set_lock">>, <<"acq", "sm_mutex">>, <<"rel", "sm_mutex">> >>
      [] fn = "mark_closure" ->
            << <<"acq", "nonmoving_large_objects_mutex">>,
               <<"rel", "nonmoving_large_objects_mutex">> >>
      [] fn = "finish_upd_rem_set_mark" ->
            << <<"acq", "nonmoving_large_objects_mutex">>,
               <<"rel", "nonmoving_large_objects_mutex">> >>

\* the functions a thread runs: the collector thread, or a mutator
LockFns(t) ==
    IF t = GC
    THEN {"push", "markQueuePop", "nonmovingMark", "mark_closure", "nonmovingBeginFlush",
          "nonmovingWaitForFlush", "nonmovingWaitForFlush_wait", "nonmovingFinishFlush"}
    ELSE {"nonmovingAddUpdRemSetBlocks", "nonmovingFlushCapUpdRemSetBlocks",
          "finish_upd_rem_set_mark"}

holder(l) ==
    CASE l = "upd_rem_set_lock" -> upd_rem_set_lock
      [] l = "sm_mutex" -> sm_mutex
      [] l = "nonmoving_large_objects_mutex" -> nonmoving_large_objects_mutex

Held(t) == {l \in Locks : holder(l) = t}

SetHolder(l, t) ==
    /\ upd_rem_set_lock' = IF l = "upd_rem_set_lock" THEN t ELSE upd_rem_set_lock
    /\ sm_mutex' = IF l = "sm_mutex" THEN t ELSE sm_mutex
    /\ nonmoving_large_objects_mutex' =
          IF l = "nonmoving_large_objects_mutex" THEN t ELSE nonmoving_large_objects_mutex

\* the thread's position after the operation at hand
lock_advance(t) ==
    lpc' = [lpc EXCEPT ![t] = IF Len(@.ops) = 1 THEN NoCall ELSE [@ EXCEPT !.ops = Tail(@)]]

lock_rest ==
    UNCHANGED <<heapvars, markvars, nonmoving_large_objects, nonmoving_marked_large_objects,
                n_nonmoving_large_blocks, n_nonmoving_marked_large_blocks, queuevars,
                upd_rem_set_flush_count, cond_woken, fpc, collvars, mutvars, histvars,
                bumpvars, nres, alive, qvars, arrvars, weakvars, threadvars, blockvars>>

InitLocks ==
    /\ InitHeap(<< >>, {})
    /\ InitAux({"locks"})
    /\ static_link = [o \in Objs |-> 2]
    /\ cur = NULL
    /\ cpc = "mark_ret"
    /\ bpc = [r \in Racers |-> "ret"]
    /\ phase = "locks"
    /\ sm_mutex = NoThread
    /\ lpc = [t \in Threads |-> NoCall]
    /\ lock_log = NoWrite

lock_call(t) ==
    /\ lpc[t] = NoCall
    /\ \E fn \in LockFns(t) : lpc' = [lpc EXCEPT ![t] = [fn |-> fn, ops |-> LockOps(fn)]]
    /\ UNCHANGED <<upd_rem_set_lock, sm_mutex, nonmoving_large_objects_mutex, lock_log>>
    /\ lock_rest

\* ACQUIRE_LOCK
lock_acquire(t) ==
    /\ lpc[t] # NoCall
    /\ Head(lpc[t].ops)[1] = "acq"
    /\ holder(Head(lpc[t].ops)[2]) = NoThread
    /\ SetHolder(Head(lpc[t].ops)[2], t)
    /\ lock_advance(t)
    /\ UNCHANGED lock_log
    /\ lock_rest

\* RELEASE_LOCK
lock_release(t) ==
    /\ lpc[t] # NoCall
    /\ Head(lpc[t].ops)[1] = "rel"
    /\ SetHolder(Head(lpc[t].ops)[2], NoThread)
    /\ lock_advance(t)
    /\ UNCHANGED lock_log
    /\ lock_rest

\* a write to upd_rem_set_block_list or upd_rem_set_flush_count
lock_write(t) ==
    /\ lpc[t] # NoCall
    /\ Head(lpc[t].ops)[1] = "write"
    /\ lock_log' = [fn |-> lpc[t].fn, var |-> Head(lpc[t].ops)[2], held |-> Held(t)]
    /\ lock_advance(t)
    /\ UNCHANGED <<upd_rem_set_lock, sm_mutex, nonmoving_large_objects_mutex>>
    /\ lock_rest

NextLocks ==
    \/ \E t \in Threads : lock_call(t)
    \/ \E t \in Threads : lock_acquire(t)
    \/ \E t \in Threads : lock_release(t)
    \/ \E t \in Threads : lock_write(t)

SpecLocks == InitLocks /\ [][NextLocks]_vars

(***************************************************************************)
(* A queue on its own: a mark queue (initMarkQueue) or an update           *)
(* remembered set (init_upd_rem_set), pushed to, popped, reset and freed.  *)
(***************************************************************************)
QueueEntries ==
    {MarkClosureEnt("b", NoOrigin), MarkClosureEnt("x", Slot("m", 1)), MarkArrayEnt("arr", 128)}

queue_rest ==
    UNCHANGED <<heapvars, markvars, largevars, urs, flushvars, phase, cur, cinfo, cfi, cmarking,
                ci, mutvars, histvars, bumpvars, nres, alive, lockvars, arrvars, weakvars, threadvars, blockvars>>

InitQueue ==
    /\ InitHeap(<< >>, {})
    /\ InitAux({"queue"})
    /\ static_link = [o \in Objs |-> 2]
    /\ cur = NULL
    /\ cpc = "queue"
    /\ bpc = [r \in Racers |-> "ret"]
    /\ \E k \in {"initMarkQueue", "init_upd_rem_set"} : phase = k
    /\ pushed = << >>
    /\ n_alloc = 1
    /\ n_freed = 0
    /\ ret = NullEntry
    /\ expect = NullEntry
    /\ n_reset = 0

\* initMarkQueue / init_upd_rem_set: the flag of the queue just initialised
queue_init ==
    /\ cpc = "queue"
    /\ queue' = EmptyQueue(phase = "init_upd_rem_set")
    /\ cpc' = "ready"
    /\ UNCHANGED <<upd_rem_set_block_list, qvars>>
    /\ queue_rest

queue_push ==
    /\ cpc \in {"ready", "popped", "reset", "reset_popped"}
    /\ Len(pushed) + Len(upd_rem_set_block_list) * MARK_QUEUE_BLOCK_ENTRIES < MaxQueue
    /\ n_alloc + push_allocs(queue) <= MaxBlocks
    /\ \E ent \in QueueEntries :
        LET st == push([q |-> queue, list |-> upd_rem_set_block_list], ent) IN
        /\ queue' = st.q
        /\ upd_rem_set_block_list' = st.list
        /\ pushed' = IF st.list # upd_rem_set_block_list THEN <<ent>> ELSE Append(pushed, ent)
    /\ n_alloc' = n_alloc + push_allocs(queue)
    /\ cpc' = "ready"
    /\ UNCHANGED <<n_freed, ret, expect, n_reset>>
    /\ queue_rest

queue_pop ==
    /\ cpc \in {"ready", "popped", "reset"}
    /\ ret' = markQueuePop(queue).ent
    /\ queue' = markQueuePop(queue).q
    /\ expect' = IF pushed = << >> THEN NullEntry ELSE pushed[Len(pushed)]
    /\ pushed' = IF pushed = << >> THEN pushed ELSE SubSeq(pushed, 1, Len(pushed) - 1)
    /\ n_freed' = n_freed + markQueuePop_frees(queue)
    /\ cpc' = IF cpc = "reset" THEN "reset_popped" ELSE "popped"
    /\ UNCHANGED <<upd_rem_set_block_list, n_alloc, n_reset>>
    /\ queue_rest

queue_reset ==
    /\ cpc \in {"ready", "popped"}
    /\ queue.is_upd_rem_set
    /\ queue' = reset_upd_rem_set(queue)
    /\ n_reset' = Len(pushed)
    /\ pushed' = << >>
    /\ cpc' = "reset"
    /\ UNCHANGED <<upd_rem_set_block_list, n_alloc, n_freed, ret, expect>>
    /\ queue_rest

queue_free ==
    /\ cpc \in {"ready", "popped"}
    /\ ~queue.is_upd_rem_set
    /\ n_freed' = n_freed + freeMarkQueue(queue)
    /\ cpc' = "freed"
    /\ UNCHANGED <<queue, upd_rem_set_block_list, pushed, n_alloc, ret, expect, n_reset>>
    /\ queue_rest

NextQueue == queue_init \/ queue_push \/ queue_pop \/ queue_reset \/ queue_free

SpecQueue == InitQueue /\ [][NextQueue]_vars

(***************************************************************************)
(* The MARK_ARRAY case of the mark loop on one pointer array.              *)
(***************************************************************************)
ArrayLengths == {0, 1, 127, 128, 129, 256, 300}
\* arr->payload[i]
arr_payload(i) == IF i % 2 = 0 THEN "b" ELSE "nil"

\* a test that also re-queues when the chunk ends exactly at arr->ptrs
mark_array_requeue_at_end(start, ptrs) == start + MARK_ARRAY_CHUNK_LENGTH <= ptrs

\* end < arr->ptrs, for end = start + MARK_ARRAY_CHUNK_LENGTH
mark_array_requeue(start, ptrs) == start + MARK_ARRAY_CHUNK_LENGTH < ptrs

array_rest ==
    UNCHANGED <<heapvars, markvars, largevars, urs, upd_rem_set_block_list, flushvars, phase,
                cinfo, cfi, cmarking, ci, mutvars, histvars, bumpvars, nres, alive, lockvars, qvars,
                weakvars, threadvars, blockvars>>

InitArray ==
    /\ InitHeap(<< >>, {})
    /\ InitAux({"array"})
    /\ static_link = [o \in Objs |-> 2]
    /\ cur = "arr"
    /\ cpc = "push_array"
    /\ bpc = [r \in Racers |-> "ret"]
    /\ phase = "concurrent"
    /\ \E n \in ArrayLengths : arr_ptrs = n /\ arr_traced = [i \in 0..(n - 1) |-> 0]
    /\ arr_i = 0
    /\ arr_end = 0
    /\ arr_starts = << >>

\* markQueuePushArray(queue, arr, 0): the array is queued as one entry
markQueuePushArray ==
    /\ cpc = "push_array"
    /\ queue' = push_array([q |-> queue, list |-> << >>], cur, 0).q
    /\ cpc' = "pop"
    /\ UNCHANGED <<cur, arrvars>>
    /\ array_rest

\* case MARK_ARRAY up to the loop: the tail is queued first
nonmovingMark_array ==
    /\ cpc = "mark_array"
    /\ IF mark_array_requeue(arr_i, arr_ptrs)
       THEN /\ queue' = push_array([q |-> queue, list |-> << >>], cur,
                                   arr_i + MARK_ARRAY_CHUNK_LENGTH).q
            /\ arr_end' = arr_i + MARK_ARRAY_CHUNK_LENGTH
       ELSE /\ queue' = queue
            /\ arr_end' = arr_ptrs
    /\ arr_starts' = Append(arr_starts, arr_i)
    /\ cpc' = "array_elem"
    /\ UNCHANGED <<cur, arr_ptrs, arr_i, arr_traced>>
    /\ array_rest

\* for (i = start; i < end; i++) markQueuePushClosure_(queue, arr->payload[i])
nonmovingMark_array_elem ==
    /\ cpc = "array_elem"
    /\ IF arr_i < arr_end
       THEN /\ queue' = push_closure([q |-> queue, list |-> << >>], arr_payload(arr_i),
                                     NoOrigin).q
            /\ arr_traced' = [arr_traced EXCEPT ![arr_i] = @ + 1]
            /\ arr_i' = arr_i + 1
            /\ cpc' = cpc
       ELSE /\ cpc' = "pop"
            /\ UNCHANGED <<queue, arr_traced, arr_i>>
    /\ UNCHANGED <<cur, arr_ptrs, arr_end, arr_starts>>
    /\ array_rest

NextArray ==
    \/ markQueuePushArray
    \/ nonmovingMark_pop
    \/ nonmovingMark_array
    \/ nonmovingMark_array_elem
    \/ mark_closure_classify
    \/ mark_closure_trace

SpecArray == InitArray /\ [][NextArray]_vars

(***************************************************************************)
(* Liveness queries made while and after the collector marks.              *)
(***************************************************************************)
\* the closures of the non-moving heap and the static closures
NonmovingObjs == StaticObjs \cup LargeObjs \cup SmallObjs
\* mark bytes a block holds: never set, a previous epoch, this epoch
MarkValues == {0, 1, nonmovingMarkEpoch}

InitAlive ==
    /\ \E mn \in MarkValues, mb \in MarkValues :
          InitHeapMarked(Roots, [MarkBytes({}) EXCEPT !["n"] = mn, !["x"] = mb])
    /\ InitAux({"alive"})
    /\ static_link = [o \in Objs |-> 2]
    /\ cur = NULL
    /\ cpc = "pop"
    /\ bpc = [r \in Racers |-> "ret"]
    /\ phase = "concurrent"
    /\ alive = NoQuery

\* nonmovingIsAlive(p) and nonmovingIsNowAlive(p) called on the same closure
liveness_query ==
    /\ \E p \in NonmovingObjs :
          alive' = [p |-> p, m |-> mark[p], marked |-> p \in bf_marked,
                    is_alive |-> nonmovingIsAlive(p),
                    is_now_alive |-> nonmovingIsNowAlive(p)]
    /\ UNCHANGED <<heapvars, markvars, largevars, queuevars, flushvars, collvars, mutvars,
                   histvars, bumpvars, nres, lockvars, qvars, arrvars, weakvars, threadvars, blockvars>>

NextAlive ==
    \/ nonmovingMark_pop
    \/ mark_closure_classify
    \/ mark_closure_stack_cas
    \/ mark_closure_trace
    \/ mark_closure_large_lock
    \/ mark_closure_large_move
    \/ mark_closure_large_flag
    \/ mark_closure_large_unlock
    \/ liveness_query

SpecAlive == InitAlive /\ [][NextAlive]_vars

(***************************************************************************)
(* Weak pointers: nonmovingTidyWeaks walks nonmoving_old_weak_ptr_list,    *)
(* one weak per step.  last_w is "head" for the address of the list head   *)
(* and a weak for the address of that weak's link field.                   *)
(***************************************************************************)
WeakKeys == {"n", "a", "s"}
weak_value(w) == CASE w = "wk1" -> "m" [] w = "wk2" -> "t" [] OTHER -> "u"
weak_finalizer(w) == IF w = "wk3" THEN "x" ELSE "nil"
stg_NO_FINALIZER_closure == "s"
weak_cfinalizers(w) == IF w = "wk2" THEN "u" ELSE stg_NO_FINALIZER_closure

\* sequences of distinct weaks
WeakLists ==
    {l \in UNION {[1..n -> Weaks] : n \in 0..Cardinality(Weaks)} :
        \A i, j \in DOMAIN l : i # j => l[i] # l[j]}
ListHead(l) == IF l = << >> THEN NULL ELSE l[1]
\* the link field of w when the lists are linked as the sequences a and b
LinkIn(a, b, w) ==
    LET l == IF \E i \in DOMAIN a : a[i] = w THEN a ELSE b
        i == IF \E k \in DOMAIN l : l[k] = w THEN CHOOSE k \in DOMAIN l : l[k] = w ELSE 0
    IN  IF i = 0 \/ i = Len(l) THEN NULL ELSE l[i + 1]

\* a live weak marked as the dead ones are
nonmovingMarkLiveWeak_as_dead(st, w) ==
    push_closures(st, << <<weak_value(w), NoOrigin>>, <<weak_finalizer(w), NoOrigin>> >>)

\* a live weak whose value is not pushed
nonmovingMarkLiveWeak_no_value(st, w) ==
    push_closures(st, << <<weak_finalizer(w), NoOrigin>>, <<weak_cfinalizers(w), NoOrigin>> >>)

nonmovingMarkLiveWeak(st, w) ==
    push_closures(st, << <<weak_value(w), NoOrigin>>, <<weak_finalizer(w), NoOrigin>>,
                         <<weak_cfinalizers(w), NoOrigin>> >>)

\* a dead weak whose value is always pushed
nonmovingMarkDeadWeak_value_always(st, w) ==
    push_closures(st, << <<weak_value(w), NoOrigin>>, <<weak_finalizer(w), NoOrigin>> >>)

nonmovingMarkDeadWeak(st, w) ==
    push_closures(st,
        (IF weak_cfinalizers(w) # stg_NO_FINALIZER_closure
         THEN << <<weak_value(w), NoOrigin>> >> ELSE << >>)
        \o << <<weak_finalizer(w), NoOrigin>> >>)

weak_rest ==
    UNCHANGED <<heapvars, markvars, largevars, urs, upd_rem_set_block_list, flushvars, phase,
                cur, cinfo, cfi, cmarking, ci, mutvars, histvars, bumpvars, nres, alive,
                lockvars, qvars, arrvars, weak_info, weak_key, threadvars, blockvars>>

InitWeak ==
    /\ \E mn \in {0, nonmovingMarkEpoch} :
          InitHeapMarked(<< >>, [MarkBytes({}) EXCEPT !["n"] = mn])
    /\ InitAux({"weaks"})
    /\ static_link = [o \in Objs |-> 2]
    /\ cur = NULL
    /\ cpc = "tidy_call"
    /\ bpc = [r \in Racers |-> "ret"]
    /\ phase = "concurrent"
    /\ weak_info \in [Weaks -> {"WEAK", "DEAD_WEAK"}]
    /\ weak_key \in [Weaks -> WeakKeys]
    /\ \E a \in WeakLists, b \in WeakLists :
          /\ \A i \in DOMAIN a, j \in DOMAIN b : a[i] # b[j]
          /\ nonmoving_old_weak_ptr_list = ListHead(a)
          /\ nonmoving_weak_ptr_list = ListHead(b)
          /\ weak_link = [w \in Weaks |-> LinkIn(a, b, w)]
          /\ tw = [NoTidy EXCEPT !.old0 = a, !.new0 = b]
    /\ dead_weaks = NULL

\* *last_w = v
store_last_w(v) ==
    IF tw.last_w = "head"
    THEN [head |-> v, link |-> weak_link]
    ELSE [head |-> nonmoving_old_weak_ptr_list, link |-> [weak_link EXCEPT ![tw.last_w] = v]]

nonmovingTidyWeaks_begin ==
    /\ cpc = "tidy_call"
    /\ tw' = [tw EXCEPT !.w = nonmoving_old_weak_ptr_list, !.last_w = "head",
                        !.did_work = FALSE]
    /\ cpc' = "tidy_loop"
    /\ UNCHANGED <<queue, weak_link, nonmoving_old_weak_ptr_list, nonmoving_weak_ptr_list>>
    /\ UNCHANGED dead_weaks
    /\ weak_rest

\* finalizeWeak# was called on the weak: it is unlinked
nonmovingTidyWeaks_dead ==
    /\ cpc = "tidy_loop"
    /\ tw.w # NULL
    /\ weak_info[tw.w] = "DEAD_WEAK"
    /\ LET next_w == weak_link[tw.w] IN
        /\ nonmoving_old_weak_ptr_list' = store_last_w(next_w).head
        /\ weak_link' = store_last_w(next_w).link
        /\ tw' = [tw EXCEPT !.w = next_w]
    /\ UNCHANGED <<queue, cpc, nonmoving_weak_ptr_list>>
    /\ UNCHANGED dead_weaks
    /\ weak_rest

\* the key is alive: the weak is marked and moved to nonmoving_weak_ptr_list
nonmovingTidyWeaks_live ==
    /\ cpc = "tidy_loop"
    /\ tw.w # NULL
    /\ weak_info[tw.w] # "DEAD_WEAK"
    /\ nonmovingIsNowAlive(weak_key[tw.w])
    /\ queue' = nonmovingMarkLiveWeak([q |-> queue, list |-> upd_rem_set_block_list], tw.w).q
    /\ LET next_w == weak_link[tw.w] IN
        /\ nonmoving_old_weak_ptr_list' = store_last_w(next_w).head
        /\ weak_link' = [store_last_w(next_w).link EXCEPT ![tw.w] = nonmoving_weak_ptr_list]
        /\ nonmoving_weak_ptr_list' = tw.w
        /\ tw' = [tw EXCEPT !.w = next_w, !.did_work = TRUE]
    /\ UNCHANGED cpc
    /\ UNCHANGED dead_weaks
    /\ weak_rest

\* the key is not known to be alive: the weak stays
nonmovingTidyWeaks_keep ==
    /\ cpc = "tidy_loop"
    /\ tw.w # NULL
    /\ weak_info[tw.w] # "DEAD_WEAK"
    /\ ~nonmovingIsNowAlive(weak_key[tw.w])
    /\ tw' = [tw EXCEPT !.w = weak_link[tw.w], !.last_w = tw.w]
    /\ UNCHANGED <<queue, cpc, weak_link, nonmoving_old_weak_ptr_list, nonmoving_weak_ptr_list>>
    /\ UNCHANGED dead_weaks
    /\ weak_rest

\* return did_work
nonmovingTidyWeaks_ret ==
    /\ cpc = "tidy_loop"
    /\ tw.w = NULL
    /\ cpc' = "tidy_ret"
    /\ UNCHANGED <<queue, weak_link, nonmoving_old_weak_ptr_list, nonmoving_weak_ptr_list, tw>>
    /\ UNCHANGED dead_weaks
    /\ weak_rest

\* nonmovingMarkDeadWeaks(queue, &dead_weaks) called after the last tidy
nonmovingMarkDeadWeaks_begin ==
    /\ cpc = "tidy_ret"
    /\ tw' = [tw EXCEPT !.w = nonmoving_old_weak_ptr_list]
    /\ cpc' = "dead_loop"
    /\ UNCHANGED <<queue, weak_link, nonmoving_old_weak_ptr_list, nonmoving_weak_ptr_list,
                   dead_weaks>>
    /\ weak_rest

\* a loop body that also takes the weak off nonmoving_old_weak_ptr_list
nonmovingMarkDeadWeaks_step_unlinks ==
    /\ cpc = "dead_loop"
    /\ tw.w # NULL
    /\ queue' = nonmovingMarkDeadWeak([q |-> queue, list |-> upd_rem_set_block_list], tw.w).q
    /\ tw' = [tw EXCEPT !.w = weak_link[tw.w]]
    /\ weak_link' = [weak_link EXCEPT ![tw.w] = dead_weaks]
    /\ dead_weaks' = tw.w
    /\ nonmoving_old_weak_ptr_list' = weak_link[tw.w]
    /\ UNCHANGED <<cpc, nonmoving_weak_ptr_list>>
    /\ weak_rest

\* one weak of the old list: marked as dead and moved onto dead_weaks
nonmovingMarkDeadWeaks_step ==
    /\ cpc = "dead_loop"
    /\ tw.w # NULL
    /\ queue' = nonmovingMarkDeadWeak([q |-> queue, list |-> upd_rem_set_block_list], tw.w).q
    /\ tw' = [tw EXCEPT !.w = weak_link[tw.w]]
    /\ weak_link' = [weak_link EXCEPT ![tw.w] = dead_weaks]
    /\ dead_weaks' = tw.w
    /\ UNCHANGED <<cpc, nonmoving_old_weak_ptr_list, nonmoving_weak_ptr_list>>
    /\ weak_rest

nonmovingMarkDeadWeaks_ret ==
    /\ cpc = "dead_loop"
    /\ tw.w = NULL
    /\ cpc' = "dead_ret"
    /\ UNCHANGED <<queue, weak_link, nonmoving_old_weak_ptr_list, nonmoving_weak_ptr_list,
                   tw, dead_weaks>>
    /\ weak_rest

NextWeak ==
    \/ nonmovingTidyWeaks_begin
    \/ nonmovingTidyWeaks_dead
    \/ nonmovingTidyWeaks_live
    \/ nonmovingTidyWeaks_keep
    \/ nonmovingTidyWeaks_ret
    \/ nonmovingMarkDeadWeaks_begin
    \/ nonmovingMarkDeadWeaks_step
    \/ nonmovingMarkDeadWeaks_ret

SpecWeak == InitWeak /\ [][NextWeak]_vars

(***************************************************************************)
(* Threads: nonmovingTidyThreads and then nonmovingResurrectThreads walk   *)
(* nonmoving_old_threads, one thread per step.  prev is "head" for the     *)
(* address of the list head and a TSO for the address of its global_link.  *)
(***************************************************************************)
WhatNext == {"ThreadRunGHC", "ThreadKilled", "ThreadComplete"}

\* sequences of distinct threads
ThreadLists ==
    {l \in UNION {[1..n -> ThreadObjs] : n \in 0..Cardinality(ThreadObjs)} :
        \A i, j \in DOMAIN l : i # j => l[i] # l[j]}
\* the global_link of t when the lists are linked as the sequences a and b
GlobalLinkIn(a, b, t) ==
    LET l == IF \E i \in DOMAIN a : a[i] = t THEN a ELSE b
        i == IF \E k \in DOMAIN l : l[k] = t THEN CHOOSE k \in DOMAIN l : l[k] = t ELSE 0
    IN  IF i = 0 \/ i = Len(l) THEN END_TSO_QUEUE ELSE l[i + 1]

\* the threads of a list, from its head along global_link
RECURSIVE ThreadList(_)
ThreadList(t) == IF t = END_TSO_QUEUE THEN << >> ELSE <<t>> \o ThreadList(global_link[t])

thread_rest ==
    UNCHANGED <<heapvars, markvars, largevars, urs, upd_rem_set_block_list, flushvars, phase,
                cur, cinfo, cfi, cmarking, ci, mutvars, histvars, bumpvars, nres, alive,
                lockvars, qvars, arrvars, weakvars, what_next, blockvars>>

InitThreads ==
    /\ \E mb \in {1, nonmovingMarkEpoch}, mx \in {1, nonmovingMarkEpoch} :
          InitHeapMarked(<< >>, [MarkBytes({}) EXCEPT !["b"] = mb, !["x"] = mx])
    /\ InitAux({"threads"})
    /\ static_link = [o \in Objs |-> 2]
    /\ cur = NULL
    /\ cpc = "tidy_threads_call"
    /\ bpc = [r \in Racers |-> "ret"]
    /\ phase = "final"
    /\ what_next \in [ThreadObjs -> WhatNext]
    /\ resurrected_threads = END_TSO_QUEUE
    /\ \E a \in ThreadLists, b \in ThreadLists :
          /\ \A i \in DOMAIN a, j \in DOMAIN b : a[i] # b[j]
          /\ nonmoving_old_threads = IF a = << >> THEN END_TSO_QUEUE ELSE a[1]
          /\ nonmoving_threads = IF b = << >> THEN END_TSO_QUEUE ELSE b[1]
          /\ global_link = [t \in ThreadObjs |-> GlobalLinkIn(a, b, t)]
          /\ tt = [NoThreads EXCEPT !.old0 = a, !.new0 = b]

\* a store through prev that always goes to the list head
store_prev_head(v) == [head |-> v, link |-> global_link]

\* *prev = v
store_prev(v) ==
    IF tt.prev = "head"
    THEN [head |-> v, link |-> global_link]
    ELSE [head |-> nonmoving_old_threads, link |-> [global_link EXCEPT ![tt.prev] = v]]

nonmovingTidyThreads_begin ==
    /\ cpc = "tidy_threads_call"
    /\ tt' = [tt EXCEPT !.t = nonmoving_old_threads, !.prev = "head"]
    /\ cpc' = "tidy_threads_loop"
    /\ UNCHANGED <<queue, global_link, nonmoving_old_threads, nonmoving_threads,
                   resurrected_threads>>
    /\ thread_rest

\* the thread is alive: it is moved onto nonmoving_threads
nonmovingTidyThreads_alive ==
    /\ cpc = "tidy_threads_loop"
    /\ tt.t # END_TSO_QUEUE
    /\ nonmovingIsNowAlive(tt.t)
    /\ LET next == global_link[tt.t] IN
        /\ nonmoving_old_threads' = store_prev(next).head
        /\ global_link' = [store_prev(next).link EXCEPT ![tt.t] = nonmoving_threads]
        /\ nonmoving_threads' = tt.t
        /\ tt' = [tt EXCEPT !.t = next]
    /\ UNCHANGED <<queue, cpc, resurrected_threads>>
    /\ thread_rest

\* not alive (yet): the thread stays on nonmoving_old_threads
nonmovingTidyThreads_keep ==
    /\ cpc = "tidy_threads_loop"
    /\ tt.t # END_TSO_QUEUE
    /\ ~nonmovingIsNowAlive(tt.t)
    /\ tt' = [tt EXCEPT !.t = global_link[tt.t], !.prev = tt.t]
    /\ UNCHANGED <<queue, cpc, global_link, nonmoving_old_threads, nonmoving_threads,
                   resurrected_threads>>
    /\ thread_rest

nonmovingTidyThreads_ret ==
    /\ cpc = "tidy_threads_loop"
    /\ tt.t = END_TSO_QUEUE
    /\ cpc' = "tidy_threads_ret"
    /\ UNCHANGED <<queue, global_link, nonmoving_old_threads, nonmoving_threads,
                   resurrected_threads, tt>>
    /\ thread_rest

\* a resurrection that skips only the killed threads
resurrects_unless_killed(wn) == wn # "ThreadKilled"

\* the switch on t->what_next
resurrects(wn) == wn \notin {"ThreadKilled", "ThreadComplete"}

\* nonmovingResurrectThreads(queue, &resurrected_threads)
nonmovingResurrectThreads_begin ==
    /\ cpc = "tidy_threads_ret"
    /\ tt' = [tt EXCEPT !.t = nonmoving_old_threads,
                        !.left = ThreadList(nonmoving_old_threads)]
    /\ cpc' = "resurrect_loop"
    /\ UNCHANGED <<queue, global_link, nonmoving_old_threads, nonmoving_threads,
                   resurrected_threads>>
    /\ thread_rest

\* ThreadKilled, ThreadComplete: continue
nonmovingResurrectThreads_skip ==
    /\ cpc = "resurrect_loop"
    /\ tt.t # END_TSO_QUEUE
    /\ ~resurrects(what_next[tt.t])
    /\ tt' = [tt EXCEPT !.t = global_link[tt.t]]
    /\ UNCHANGED <<queue, cpc, global_link, nonmoving_old_threads, nonmoving_threads,
                   resurrected_threads>>
    /\ thread_rest

\* default: the thread is queued and linked onto resurrected_threads
nonmovingResurrectThreads_push ==
    /\ cpc = "resurrect_loop"
    /\ tt.t # END_TSO_QUEUE
    /\ resurrects(what_next[tt.t])
    /\ queue' = push_closure([q |-> queue, list |-> upd_rem_set_block_list], tt.t, NoOrigin).q
    /\ tt' = [tt EXCEPT !.t = global_link[tt.t]]
    /\ global_link' = [global_link EXCEPT ![tt.t] = resurrected_threads]
    /\ resurrected_threads' = tt.t
    /\ UNCHANGED <<cpc, nonmoving_old_threads, nonmoving_threads>>
    /\ thread_rest

nonmovingResurrectThreads_ret ==
    /\ cpc = "resurrect_loop"
    /\ tt.t = END_TSO_QUEUE
    /\ cpc' = "resurrect_ret"
    /\ UNCHANGED <<queue, global_link, nonmoving_old_threads, nonmoving_threads,
                   resurrected_threads, tt>>
    /\ thread_rest

NextThreads ==
    \/ nonmovingTidyThreads_begin
    \/ nonmovingTidyThreads_alive
    \/ nonmovingTidyThreads_keep
    \/ nonmovingTidyThreads_ret
    \/ nonmovingResurrectThreads_begin
    \/ nonmovingResurrectThreads_skip
    \/ nonmovingResurrectThreads_push
    \/ nonmovingResurrectThreads_ret

SpecThreads == InitThreads /\ [][NextThreads]_vars

(***************************************************************************)
(* Reconciliation: the collector runs the weak pass (nonmovingTidyWeaks,   *)
(* nonmovingMarkDeadWeaks) or the thread pass (nonmovingTidyThreads,       *)
(* nonmovingResurrectThreads); the two work on separate lists.             *)
(***************************************************************************)
InitReconcile == InitWeak \/ InitThreads

NextReconcile == NextWeak \/ NextThreads

SpecReconcile == InitReconcile /\ [][NextReconcile]_vars

(***************************************************************************)
(* The weak fixpoint: the collector alternates nonmovingMark and           *)
(* nonmovingTidyWeaks until nonmovingTidyWeaks returns false.              *)
(***************************************************************************)
FixRoots == <<"b">>
FixKeys == {"b", "m", "t"}

InitFix ==
    /\ InitHeap(FixRoots, {})
    /\ InitAux({"weaks"})
    /\ static_link = [o \in Objs |-> 2]
    /\ cur = NULL
    /\ cpc = "pop"
    /\ bpc = [r \in Racers |-> "ret"]
    /\ phase = "final"
    /\ weak_info \in [Weaks -> {"WEAK", "DEAD_WEAK"}]
    /\ weak_key \in [Weaks -> FixKeys]
    /\ dead_weaks = NULL
    /\ nonmoving_weak_ptr_list = NULL
    /\ \E a \in WeakLists :
          /\ nonmoving_old_weak_ptr_list = ListHead(a)
          /\ weak_link = [w \in Weaks |-> LinkIn(a, << >>, w)]
          /\ tw = [NoTidy EXCEPT !.old0 = a]

fix_rest ==
    UNCHANGED <<heapvars, markvars, largevars, queuevars, flushvars, phase,
                cur, cinfo, cfi, cmarking, ci, mutvars, histvars, bumpvars, nres, alive,
                lockvars, qvars, arrvars, weak_info, weak_key, weak_link,
                nonmoving_old_weak_ptr_list, nonmoving_weak_ptr_list, dead_weaks, threadvars, blockvars>>

\* nonmovingMark has returned: nonmovingTidyWeaks is called
fixpoint_tidy ==
    /\ cpc = "mark_ret"
    /\ cpc' = "tidy_call"
    /\ tw' = [tw EXCEPT !.rounds = @ + 1]
    /\ fix_rest

\* nonmovingTidyWeaks returned true: nonmovingMark is called again
fixpoint_again ==
    /\ cpc = "tidy_ret"
    /\ tw.did_work
    /\ cpc' = "pop"
    /\ UNCHANGED tw
    /\ fix_rest

\* nonmovingTidyWeaks returned false: the alternation ends
fixpoint_done ==
    /\ cpc = "tidy_ret"
    /\ ~tw.did_work
    /\ cpc' = "fix_done"
    /\ UNCHANGED tw
    /\ fix_rest

NextFix ==
    \/ nonmovingMark_pop
    \/ mark_closure_classify
    \/ mark_closure_trace
    \/ mark_closure_large_lock
    \/ mark_closure_large_move
    \/ mark_closure_large_flag
    \/ mark_closure_large_unlock
    \/ fixpoint_tidy
    \/ nonmovingTidyWeaks_begin
    \/ nonmovingTidyWeaks_dead
    \/ nonmovingTidyWeaks_live
    \/ nonmovingTidyWeaks_keep
    \/ nonmovingTidyWeaks_ret
    \/ fixpoint_again
    \/ fixpoint_done

SpecFix == InitFix /\ [][NextFix]_vars

(***************************************************************************)
(* Barrier-only reachability: no roots, and one mutable variable holding   *)
(* the non-moving object A.  The variable is overwritten either before the *)
(* mark begins, when the write barrier is off, or while the mark runs.     *)
(* The thunk that also refers to A is unreachable and never updated here.  *)
(***************************************************************************)
BarrierSlot == "m"
BarrierA == InitPayload[BarrierSlot][1]

InitBarrier ==
    /\ InitHeap(<< >>, {})
    /\ InitAux({})
    /\ static_link = [o \in Objs |-> 2]
    /\ cur = NULL
    /\ bpc = [r \in Racers |-> "ret"]
    /\ \/ cpc = "premark" /\ phase = "premark"
       \/ cpc = "pop" /\ phase = "concurrent"

\* a store made before the mark begins: the write barrier is not enabled
premark_store ==
    /\ cpc = "premark"
    /\ \E v \in StoredValues :
          payload' = [payload EXCEPT ![BarrierSlot] = <<v>>]
    /\ info' = [info EXCEPT ![BarrierSlot] = "MUT_VAR_DIRTY"]
    /\ cpc' = "pop"
    /\ phase' = "concurrent"
    /\ UNCHANGED <<indirectee, markvars, largevars, queuevars, flushvars, cur, cinfo, cfi,
                   cmarking, ci, mutvars, histvars, bumpvars, auxvars>>

NextBarrier ==
    \/ premark_store
    \/ nonmovingMark_pop
    \/ nonmovingMark_splice
    \/ mark_closure_classify
    \/ mark_closure_trace
    \/ mark_closure_large_lock
    \/ mark_closure_large_move
    \/ mark_closure_large_flag
    \/ mark_closure_large_unlock
    \/ \E w \in Workers : mutvar_barrier(w)
    \/ \E w \in Workers : mutvar_write(w)
    \/ nonmovingBeginFlush
    \/ nonmovingBeginFlush_add
    \/ nonmovingBeginFlush_inc
    \/ nonmovingBeginFlush_signal
    \/ \E w \in Workers : nonmovingFlushCapUpdRemSetBlocks_add(w)
    \/ \E w \in Workers : nonmovingFlushCapUpdRemSetBlocks_inc(w)
    \/ \E w \in Workers : nonmovingFlushCapUpdRemSetBlocks_signal(w)
    \/ nonmovingWaitForFlush
    \/ nonmovingWaitForFlush_park
    \/ nonmovingWaitForFlush_wake
    \/ nonmovingFinishFlush

SpecBarrier == InitBarrier /\ [][NextBarrier]_vars

\* the steps of nonmovingMark; the collector thread keeps running
MarkLoop ==
    \/ nonmovingMark_pop
    \/ nonmovingMark_splice
    \/ mark_closure_classify
    \/ mark_closure_trace
    \/ mark_closure_large_lock
    \/ mark_closure_large_move
    \/ mark_closure_large_flag
    \/ mark_closure_large_unlock

SpecBarrierFair == SpecBarrier /\ WF_vars(MarkLoop)

(***************************************************************************)
(* The push operations on their own: push_closure, push_array and          *)
(* markQueuePushClosureGC on the collector's queue,                        *)
(* updateRemembSetPushClosure on a capability's remembered set.  cur is    *)
(* the pointer passed by the last call, phase the function called.         *)
(***************************************************************************)
PushTargets == {"b+1", "y", "y+1", "s+2", "a", "pin"}
PushArrays == {"b", "y"}

RECURSIVE ChainLen(_)
ChainLen(blocks) == IF blocks = << >> THEN 0 ELSE Len(blocks[1]) + ChainLen(Tail(blocks))

\* entries held by the queue, the remembered sets and the global list
PushedEntries ==
    ChainLen(queue.blocks) + ChainLen(upd_rem_set_block_list)
    + ChainLen(urs[capabilities[1]].blocks) + ChainLen(urs[capabilities[2]].blocks)

InitPush ==
    /\ InitHeap(<< >>, {})
    /\ InitAux({})
    /\ static_link = [o \in Objs |-> 2]
    /\ cur = NULL
    /\ cpc = "push_idle"
    /\ bpc = [r \in Racers |-> "ret"]
    /\ phase = "concurrent"

push_rest ==
    UNCHANGED <<heapvars, markvars, largevars, flushvars, cinfo, cfi, cmarking, ci, mutvars,
                histvars, bumpvars, nres, alive, sm_mutex, lpc, qvars, arrvars, weakvars,
                threadvars, blockvars>>

push_closure_call ==
    /\ PushedEntries < MaxPushes
    /\ \E p \in PushTargets :
        /\ queue' = push_closure([q |-> queue, list |-> upd_rem_set_block_list], p, NoOrigin).q
        /\ cur' = p
    /\ phase' = "push_closure"
    /\ cpc' = "push_ret"
    /\ lock_log' = NoWrite
    /\ UNCHANGED <<urs, upd_rem_set_block_list>>
    /\ push_rest

push_array_call ==
    /\ PushedEntries < MaxPushes
    /\ \E p \in PushArrays :
        /\ queue' = push_array([q |-> queue, list |-> upd_rem_set_block_list], p, 0).q
        /\ cur' = p
    /\ phase' = "push_array"
    /\ cpc' = "push_ret"
    /\ lock_log' = NoWrite
    /\ UNCHANGED <<urs, upd_rem_set_block_list>>
    /\ push_rest

updateRemembSetPushClosure_call(w) ==
    /\ PushedEntries < MaxPushes
    /\ \E p \in PushTargets :
        /\ SetUrs(w, updateRemembSetPushClosure(UrsOf(w), p))
        /\ cur' = p
        /\ lock_log' = [fn |-> "updateRemembSetPushClosure", var |-> "upd_rem_set_block_list",
                        held |-> IF check_in_nonmoving_heap(p) THEN push_locks(urs[w])
                                 ELSE {}]
    /\ phase' = "updateRemembSetPushClosure"
    /\ cpc' = "push_ret"
    /\ UNCHANGED queue
    /\ push_rest

markQueuePushClosureGC_call ==
    /\ PushedEntries < MaxPushes
    /\ \E p \in PushTargets :
        /\ queue' = markQueuePushClosureGC(queue, p)
        /\ cur' = p
    /\ phase' = "markQueuePushClosureGC"
    /\ cpc' = "push_ret"
    /\ lock_log' = [fn |-> "markQueuePushClosureGC", var |-> "q->blocks",
                    held |-> markQueuePushClosureGC_locks(queue)]
    /\ UNCHANGED <<urs, upd_rem_set_block_list>>
    /\ push_rest

NextPush ==
    \/ push_closure_call
    \/ push_array_call
    \/ \E w \in Workers : updateRemembSetPushClosure_call(w)
    \/ markQueuePushClosureGC_call

SpecPush == InitPush /\ [][NextPush]_vars

(***************************************************************************)
(* The collector and the dirty-object barriers on a heap with a TSO, its   *)
(* stack and a pointer array as roots.                                     *)
(***************************************************************************)
OrderRoots == <<"T", "arr">>
OrderArrayLength == 2

InitOrder ==
    /\ InitHeap(OrderRoots, {})
    /\ InitAux({"array"})
    /\ static_link = [o \in Objs |-> 2]
    /\ cur = NULL
    /\ cpc = "pop"
    /\ bpc = [r \in Racers |-> "ret"]
    /\ phase = "concurrent"
    /\ arr_ptrs = OrderArrayLength
    /\ arr_traced = [i \in 0..(OrderArrayLength - 1) |-> 0]
    /\ arr_i = 0
    /\ arr_end = 0
    /\ arr_starts = << >>

NextOrder ==
    \/ Collector
    \/ Dirty
    \/ nonmovingMark_array
    \/ nonmovingMark_array_elem

SpecOrder == InitOrder /\ [][NextOrder]_vars

\* the steps of worker w inside a dirty-object barrier it has entered
BarrierSteps(w) ==
    \/ updateRemembSetPushStack_cas(w)
    \/ updateRemembSetPushStack_spin(w)
    \/ finish_upd_rem_set_mark(w)
    \/ finish_upd_rem_set_mark_flag(w)
    \/ finish_upd_rem_set_mark_move(w)
    \/ finish_upd_rem_set_mark_unlock(w)

\* every thread that is inside the mark loop or a barrier keeps running
SpecOrderFair ==
    SpecOrder /\ WF_vars(Collector) /\ \A w \in Workers : WF_vars(BarrierSteps(w))

(***************************************************************************)
(* The mark loop beside mutators that lock closures: a locked closure has  *)
(* the info pointer of a WHITEHOLE until its owner unlocks it.             *)
(***************************************************************************)
LockedClosures == {"T", "u", "s"}

\* lockClosure(p) by a mutator: the info pointer is swapped for WHITEHOLE
lockClosure(w) ==
    /\ MutActive(w)
    /\ \E p \in LockedClosures :
        /\ info[p] # "WHITEHOLE"
        /\ info' = [info EXCEPT ![p] = "WHITEHOLE"]
        /\ mobj' = [mobj EXCEPT ![w] = p]
        /\ mval' = [mval EXCEPT ![w] = info[p]]
    /\ mpc' = [mpc EXCEPT ![w] = "locked"]
    /\ nops' = nops + 1
    /\ UNCHANGED <<payload, indirectee, markvars, largevars, queuevars, flushvars, collvars,
                   mmarking, histvars, bumpvars, auxvars>>

\* unlockClosure(p, info): the info pointer is stored back
unlockClosure(w) ==
    /\ mpc[w] = "locked"
    /\ info' = [info EXCEPT ![mobj[w]] = mval[w]]
    /\ mpc' = [mpc EXCEPT ![w] = "idle"]
    /\ UNCHANGED <<payload, indirectee, markvars, largevars, queuevars, flushvars, collvars,
                   mobj, mval, mmarking, nops, histvars, bumpvars, auxvars>>

\* the steps of the collector thread in SpecWhite
MarkLoopSteps ==
    \/ Collector
    \/ mark_closure_whitehole
    \/ nonmovingMark_array
    \/ nonmovingMark_array_elem

NextWhite ==
    \/ MarkLoopSteps
    \/ Dirty
    \/ \E w \in Workers : lockClosure(w)
    \/ \E w \in Workers : unlockClosure(w)

SpecWhite == InitOrder /\ [][NextWhite]_vars

(***************************************************************************)
(* The mark on a corrupted heap: a closure with an info pointer of no known *)
(* type, a pointer into a block that is neither BF_NONMOVING nor BF_PINNED, *)
(* a stack with an activation record of no known type.                     *)
(***************************************************************************)
INVALID_OBJECT == "INVALID_OBJECT"
\* a pointer into an oldest-generation block with no flag set
StrangeBlockPtr == "odd"

CorruptInfos ==
    {InitInfo} \cup {[InitInfo EXCEPT ![o] = INVALID_OBJECT] : o \in {"b", "u", "nil", "s"}}
               \cup {[InitInfo EXCEPT !["u"] = "AP"]}
CorruptRoots == {Roots, Roots \o <<StrangeBlockPtr>>, Roots \o <<"Kw">>}

InitCorrupt ==
    /\ \E I \in CorruptInfos, r \in CorruptRoots : InitHeapInfo(r, MarkBytes({}), I)
    /\ InitAux({})
    /\ static_link = [o \in Objs |-> 2]
    /\ cur = NULL
    /\ cpc = "pop"
    /\ bpc = [r \in Racers |-> "ret"]
    /\ phase = "concurrent"

\* a thread that called barf takes no further step
NextCorrupt == Collector \/ Stores

SpecCorrupt == InitCorrupt /\ [][NextCorrupt]_vars

(***************************************************************************)
(* The queues followed block by block: each capability's remembered set,   *)
(* the global remembered set and the mark queue as chains of block         *)
(* descriptors taken from and returned to the block allocator.  A step is  *)
(* one critical section; entries are numbered in the order of the pushes.  *)
(***************************************************************************)
\* the blocks linked from head, in order (at most n of them)
RECURSIVE bd_chain(_, _, _)
bd_chain(B, head, n) ==
    IF head = 0 \/ n = 0 THEN << >> ELSE <<head>> \o bd_chain(B, B[head].link, n - 1)

Chain(head) == bd_chain(bdescr, head, MaxBds + 1)
ChainSet(head) == {Chain(head)[i] : i \in 1..Len(Chain(head))}
ChainEnts(head) ==
    UNION {{bdescr[b].entries[i] : i \in 1..Len(bdescr[b].entries)} : b \in ChainSet(head)}

\* allocGroup(1): a block of the free pool
allocGroup(B) == CHOOSE b \in Bds : B[b].free /\ \A c \in Bds : B[c].free => b <= c
freeGroup(B, b) == [B EXCEPT ![b].free = TRUE]
freeGroup_faults(B, b) == IF B[b].free THEN {"double free"} ELSE {}
\* a read or write of a block that is in the free pool
touch_faults(B, b) == IF B[b].free THEN {"use after free"} ELSE {}

\* freeChain on the blocks of a chain
RECURSIVE freeChain(_, _)
freeChain(B, ch) == IF ch = << >> THEN B ELSE freeChain(freeGroup(B, ch[1]), Tail(ch))
RECURSIVE freeChain_faults(_, _)
freeChain_faults(B, ch) ==
    IF ch = << >> THEN {}
    ELSE freeGroup_faults(B, ch[1]) \cup freeChain_faults(freeGroup(B, ch[1]), Tail(ch))

\* reset_upd_rem_set on each capability of caps: rset->queue.top->head = 0
RECURSIVE reset_all(_, _)
reset_all(B, caps) ==
    IF caps = << >> THEN B
    ELSE reset_all([B EXCEPT ![rset_blocks[caps[1]]].entries = << >>], Tail(caps))

markQueueIsEmpty_bd(c) ==
    \/ rset_blocks[c] = 0
    \/ Len(bdescr[rset_blocks[c]].entries) = 0 /\ bdescr[rset_blocks[c]].link = 0

\* a hand-over that leaves the list as it is and links nothing
AddLink_unlinked(t, c, then) ==
    /\ UNCHANGED <<bdescr, block_list, faults>>
    /\ add_call' = [add_call EXCEPT ![t] = [rset |-> c, then |-> then]]

\* nonmovingAddUpdRemSetBlocks(rset of c) by thread t, first critical section:
\* the tail of the remembered set is linked to the global list under
\* upd_rem_set_lock
AddLink(t, c, then) ==
    LET start == rset_blocks[c]
        end == Chain(start)[Len(Chain(start))]
    IN  /\ bdescr' = [bdescr EXCEPT ![end].link = block_list]
        /\ block_list' = start
        /\ faults' = faults \cup touch_faults(bdescr, end)
        /\ add_call' = [add_call EXCEPT ![t] = [rset |-> c, then |-> then]]

\* init_mark_queue_(rset) of the call thread t is in
AddInit(t) ==
    /\ \E b \in Bds : bdescr[b].free
    /\ LET b == allocGroup(bdescr) IN
        /\ bdescr' = [bdescr EXCEPT ![b] = [link |-> 0, entries |-> << >>, free |-> FALSE]]
        /\ rset_blocks' = [rset_blocks EXCEPT ![add_call[t].rset] = b]

\* a store that writes the entry and leaves the head where it was
StoreEnt_head_kept(c) ==
    /\ UNCHANGED bdescr
    /\ n_ents' = n_ents + 1
    /\ n_popped' = Append(n_popped, 0)
    /\ faults' = faults \cup touch_faults(bdescr, rset_blocks[c])

\* q->top->entries[q->top->head] = *ent; q->top->head++
StoreEnt(c) ==
    /\ bdescr' = [bdescr EXCEPT ![rset_blocks[c]].entries = Append(@, n_ents + 1)]
    /\ n_ents' = n_ents + 1
    /\ n_popped' = Append(n_popped, 0)
    /\ faults' = faults \cup touch_faults(bdescr, rset_blocks[c])

bd_rest ==
    UNCHANGED <<heapvars, markvars, largevars, queuevars, upd_rem_set_lock, cond_woken, cur,
                cinfo, cfi, cmarking, mobj, mval, mmarking, nops, histvars, bumpvars, nres,
                alive, lockvars, qvars, arrvars, weakvars, threadvars>>

InitBlocks ==
    /\ InitHeap(<< >>, {})
    /\ InitAux({"blocks"})
    /\ static_link = [o \in Objs |-> 2]
    /\ cur = NULL
    /\ cpc = "pop"
    /\ bpc = [r \in Racers |-> "ret"]
    /\ phase = "concurrent"
    /\ bdescr = [b \in Bds |-> IF b <= 3 THEN [FreeBd EXCEPT !.free = FALSE] ELSE FreeBd]
    /\ rset_blocks = [w \in Workers |-> IF w = "w1" THEN 1 ELSE 2]
    /\ block_list = 0
    /\ queue_blocks = 3
    /\ add_call = [t \in Threads |-> NoAdd]
    /\ old_block = 0
    /\ n_ents = 0
    /\ n_popped = << >>
    /\ discarded = {}
    /\ faults = {}

\* push by a worker's barrier: the entry is stored in the top block; a full block is
\* first handed to nonmovingAddUpdRemSetBlocks (here its first critical section)
push_bd(w) ==
    /\ mpc[w] = "idle"
    /\ phase = "concurrent" \/ (phase = "sync" /\ fpc[w] = "add")
    /\ n_ents < MaxEnts
    /\ IF Len(bdescr[rset_blocks[w]].entries) = MARK_QUEUE_BLOCK_ENTRIES
       THEN /\ AddLink(w, w, "store")
            /\ mpc' = [mpc EXCEPT ![w] = "add_init"]
            /\ UNCHANGED <<n_ents, n_popped>>
       ELSE /\ StoreEnt(w)
            /\ UNCHANGED <<mpc, block_list, add_call>>
    /\ UNCHANGED <<cpc, phase, ci, fpc, upd_rem_set_flush_count, rset_blocks, queue_blocks,
                   old_block, discarded>>
    /\ bd_rest

\* nonmovingAddUpdRemSetBlocks, second critical section: init_mark_queue_(rset)
\* under the storage-manager lock
nonmovingAddUpdRemSetBlocks_init(w) ==
    /\ mpc[w] = "add_init"
    /\ AddInit(w)
    /\ mpc' = [mpc EXCEPT ![w] = add_call[w].then]
    /\ UNCHANGED <<cpc, phase, ci, fpc, upd_rem_set_flush_count, block_list, queue_blocks,
                   add_call, old_block, n_ents, n_popped, discarded, faults>>
    /\ bd_rest

\* push after the remembered set was handed over: the entry goes to the new block
push_store(w) ==
    /\ mpc[w] = "store"
    /\ StoreEnt(add_call[w].rset)
    /\ add_call' = [add_call EXCEPT ![w] = NoAdd]
    /\ mpc' = [mpc EXCEPT ![w] = "idle"]
    /\ UNCHANGED <<cpc, phase, ci, fpc, upd_rem_set_flush_count, rset_blocks, block_list,
                   queue_blocks, old_block, discarded>>
    /\ bd_rest

\* nonmovingFlushCapUpdRemSetBlocks by a worker that saw the stop request: the
\* call of nonmovingAddUpdRemSetBlocks up to the end of its first critical section
nonmovingFlushCapUpdRemSetBlocks_bd(w) ==
    /\ phase = "sync" /\ fpc[w] = "add" /\ mpc[w] = "idle"
    /\ IF markQueueIsEmpty_bd(w)
       THEN /\ mpc' = [mpc EXCEPT ![w] = "inc"]
            /\ UNCHANGED <<bdescr, block_list, add_call, faults>>
       ELSE /\ AddLink(w, w, "inc")
            /\ mpc' = [mpc EXCEPT ![w] = "add_init"]
    /\ UNCHANGED <<cpc, phase, ci, fpc, upd_rem_set_flush_count, rset_blocks, queue_blocks,
                   old_block, n_ents, n_popped, discarded>>
    /\ bd_rest

\* atomic_inc(&upd_rem_set_flush_count, 1) and the signal; the worker stays
\* suspended from here on
nonmovingFlushCapUpdRemSetBlocks_count(w) ==
    /\ mpc[w] = "inc"
    /\ upd_rem_set_flush_count' = upd_rem_set_flush_count + 1
    /\ add_call' = [add_call EXCEPT ![w] = NoAdd]
    /\ fpc' = [fpc EXCEPT ![w] = "done"]
    /\ mpc' = [mpc EXCEPT ![w] = "idle"]
    /\ UNCHANGED <<cpc, phase, ci, bdescr, rset_blocks, block_list, queue_blocks, old_block,
                   n_ents, n_popped, discarded, faults>>
    /\ bd_rest

\* markQueuePop: an entry of the top block, or the top block unlinked, or
\* NULL_ENTRY and the unlocked test of upd_rem_set_block_list
markQueuePop_bd ==
    /\ cpc = "pop"
    /\ LET top == queue_blocks IN
       IF Len(bdescr[top].entries) = 0
       THEN IF bdescr[top].link = 0
            THEN /\ cpc' = IF block_list # 0 THEN "splice" ELSE "mark_ret"
                 /\ UNCHANGED <<bdescr, queue_blocks, old_block, n_popped, faults>>
            ELSE /\ old_block' = top
                 /\ queue_blocks' = bdescr[top].link
                 /\ cpc' = "pop_free"
                 /\ UNCHANGED <<bdescr, n_popped, faults>>
       ELSE LET e == bdescr[top].entries[Len(bdescr[top].entries)] IN
            /\ bdescr' = [bdescr EXCEPT ![top].entries = SubSeq(@, 1, Len(@) - 1)]
            /\ n_popped' = [n_popped EXCEPT ![e] = @ + 1]
            /\ faults' = faults \cup touch_faults(bdescr, top)
            /\ UNCHANGED <<cpc, queue_blocks, old_block>>
    /\ UNCHANGED <<phase, ci, mpc, fpc, upd_rem_set_flush_count, rset_blocks, block_list,
                   add_call, n_ents, discarded>>
    /\ bd_rest

\* freeGroup(old_block) under the storage-manager lock, then goto again
markQueuePop_free ==
    /\ cpc = "pop_free"
    /\ bdescr' = freeGroup(bdescr, old_block)
    /\ faults' = faults \cup freeGroup_faults(bdescr, old_block)
    /\ old_block' = 0
    /\ cpc' = "pop"
    /\ UNCHANGED <<phase, ci, mpc, fpc, upd_rem_set_flush_count, rset_blocks, block_list,
                   queue_blocks, add_call, n_ents, n_popped, discarded>>
    /\ bd_rest

\* case NULL_ENTRY: the global list becomes the mark queue under upd_rem_set_lock
nonmovingMark_splice_bd ==
    /\ cpc = "splice"
    /\ old_block' = queue_blocks
    /\ queue_blocks' = block_list
    /\ block_list' = 0
    /\ cpc' = "splice_free"
    /\ UNCHANGED <<phase, ci, mpc, fpc, upd_rem_set_flush_count, bdescr, rset_blocks,
                   add_call, n_ents, n_popped, discarded, faults>>
    /\ bd_rest

\* freeGroup(old) under the storage-manager lock
nonmovingMark_splice_free ==
    /\ cpc = "splice_free"
    /\ bdescr' = freeGroup(bdescr, old_block)
    /\ faults' = faults \cup freeGroup_faults(bdescr, old_block)
    /\ old_block' = 0
    /\ cpc' = "pop"
    /\ UNCHANGED <<phase, ci, mpc, fpc, upd_rem_set_flush_count, rset_blocks, block_list,
                   queue_blocks, add_call, n_ents, n_popped, discarded>>
    /\ bd_rest

\* nonmovingBeginFlush: the counter reset and the stop request; F is the set of
\* workers running in the scheduler, which flush on their own before they stop;
\* the others are suspended in a foreign call
nonmovingBeginFlush_bd ==
    /\ cpc = "mark_ret" /\ phase = "concurrent"
    /\ upd_rem_set_flush_count' = 0
    /\ \E F \in SUBSET Workers :
          /\ \A w \in Workers : mpc[w] # "idle" => w \in F
          /\ fpc' = [w \in Workers |-> IF w \in F THEN "add" ELSE "none"]
    /\ phase' = "sync"
    /\ cpc' = "stop_all"
    /\ UNCHANGED <<ci, mpc, bdescr, rset_blocks, block_list, queue_blocks, add_call,
                   old_block, n_ents, n_popped, discarded, faults>>
    /\ bd_rest

\* stopAllCapabilitiesWith returns: every worker is suspended
stopAllCapabilitiesWith_ret ==
    /\ cpc = "stop_all"
    /\ \A w \in Workers : mpc[w] = "idle" /\ fpc[w] # "add"
    /\ phase' = "flush"
    /\ ci' = 1
    /\ cpc' = "forced"
    /\ UNCHANGED <<mpc, fpc, upd_rem_set_flush_count, bdescr, rset_blocks, block_list,
                   queue_blocks, add_call, old_block, n_ents, n_popped, discarded, faults>>
    /\ bd_rest

\* the loop of nonmovingBeginFlush: nonmovingFlushCapUpdRemSetBlocks(capabilities[i])
\* up to the end of the first critical section of nonmovingAddUpdRemSetBlocks
nonmovingBeginFlush_forced ==
    /\ cpc = "forced"
    /\ IF markQueueIsEmpty_bd(capabilities[ci])
       THEN /\ cpc' = "inc"
            /\ UNCHANGED <<bdescr, block_list, add_call, faults>>
       ELSE /\ AddLink(GC, capabilities[ci], "inc")
            /\ cpc' = "add_init"
    /\ UNCHANGED <<phase, ci, mpc, fpc, upd_rem_set_flush_count, rset_blocks, queue_blocks,
                   old_block, n_ents, n_popped, discarded>>
    /\ bd_rest

\* init_mark_queue_(rset) in a call made by the collector thread
nonmovingAddUpdRemSetBlocks_init_gc ==
    /\ cpc = "add_init"
    /\ AddInit(GC)
    /\ cpc' = add_call[GC].then
    /\ UNCHANGED <<phase, ci, mpc, fpc, upd_rem_set_flush_count, block_list, queue_blocks,
                   add_call, old_block, n_ents, n_popped, discarded, faults>>
    /\ bd_rest

\* the increment and signal of the forced flush, and the next capability
nonmovingBeginFlush_count ==
    /\ cpc = "inc"
    /\ upd_rem_set_flush_count' = upd_rem_set_flush_count + 1
    /\ add_call' = [add_call EXCEPT ![GC] = NoAdd]
    /\ ci' = ci + 1
    /\ cpc' = IF ci < n_capabilities THEN "forced" ELSE "wait"
    /\ UNCHANGED <<phase, mpc, fpc, bdescr, rset_blocks, block_list, queue_blocks, old_block,
                   n_ents, n_popped, discarded, faults>>
    /\ bd_rest

\* nonmovingWaitForFlush returning true: the last pass of the mark starts; with
\* any other count the collector stays in waitCondition
nonmovingWaitForFlush_bd ==
    /\ cpc = "wait"
    /\ upd_rem_set_flush_count = n_capabilities
    /\ phase' = "final"
    /\ cpc' = "pop"
    /\ UNCHANGED <<ci, mpc, fpc, upd_rem_set_flush_count, bdescr, rset_blocks, block_list,
                   queue_blocks, add_call, old_block, n_ents, n_popped, discarded, faults>>
    /\ bd_rest

\* resurrectThreads after the last pass: the write barrier run by the collector
\* thread on a capability's remembered set
resurrectThreads_push_bd ==
    /\ cpc = "mark_ret" /\ phase = "final"
    /\ n_ents < MaxEnts
    /\ \E c \in Workers :
          IF Len(bdescr[rset_blocks[c]].entries) = MARK_QUEUE_BLOCK_ENTRIES
          THEN /\ AddLink(GC, c, "store")
               /\ cpc' = "add_init"
               /\ UNCHANGED <<n_ents, n_popped>>
          ELSE /\ StoreEnt(c)
               /\ UNCHANGED <<cpc, block_list, add_call>>
    /\ UNCHANGED <<phase, ci, mpc, fpc, upd_rem_set_flush_count, rset_blocks, queue_blocks,
                   old_block, discarded>>
    /\ bd_rest

\* the store of a push made by the collector thread
push_store_gc ==
    /\ cpc = "store"
    /\ StoreEnt(add_call[GC].rset)
    /\ add_call' = [add_call EXCEPT ![GC] = NoAdd]
    /\ cpc' = "mark_ret"
    /\ UNCHANGED <<phase, ci, mpc, fpc, upd_rem_set_flush_count, rset_blocks, block_list,
                   queue_blocks, old_block, discarded>>
    /\ bd_rest

\* nonmovingFinishFlush: reset_upd_rem_set on every capability, then
\* freeChain_lock(upd_rem_set_block_list) and the list set to NULL
nonmovingFinishFlush_bd ==
    /\ cpc = "mark_ret" /\ phase = "final"
    /\ LET B1 == reset_all(bdescr, capabilities) IN
        /\ bdescr' = freeChain(B1, Chain(block_list))
        /\ faults' = faults \cup freeChain_faults(B1, Chain(block_list))
                             \cup UNION {touch_faults(bdescr, rset_blocks[w]) : w \in Workers}
    /\ discarded' = discarded \cup ChainEnts(block_list)
                               \cup UNION {ChainEnts(rset_blocks[w]) : w \in Workers}
    /\ block_list' = 0
    /\ phase' = "done"
    /\ cpc' = "done"
    /\ UNCHANGED <<ci, mpc, fpc, upd_rem_set_flush_count, rset_blocks, queue_blocks,
                   add_call, old_block, n_ents, n_popped>>
    /\ bd_rest

NextBlocks ==
    \/ \E w \in Workers : push_bd(w)
    \/ \E w \in Workers : nonmovingAddUpdRemSetBlocks_init(w)
    \/ \E w \in Workers : push_store(w)
    \/ \E w \in Workers : nonmovingFlushCapUpdRemSetBlocks_bd(w)
    \/ \E w \in Workers : nonmovingFlushCapUpdRemSetBlocks_count(w)
    \/ markQueuePop_bd
    \/ markQueuePop_free
    \/ nonmovingMark_splice_bd
    \/ nonmovingMark_splice_free
    \/ nonmovingBeginFlush_bd
    \/ stopAllCapabilitiesWith_ret
    \/ nonmovingBeginFlush_forced
    \/ nonmovingAddUpdRemSetBlocks_init_gc
    \/ nonmovingBeginFlush_count
    \/ nonmovingWaitForFlush_bd
    \/ resurrectThreads_push_bd
    \/ push_store_gc
    \/ nonmovingFinishFlush_bd

SpecBlocks == InitBlocks /\ [][NextBlocks]_vars

(***************************************************************************)
(* Properties.                                                             *)
(***************************************************************************)
AllUrsEntries == UNION {ChainEntries(urs[w].blocks) : w \in Workers}

\* C1 (snapshot soundness): once the mark, its flush and its last pass are
\* over, nonmovingIsAlive holds of every non-moving object that was reachable
\* from the roots when the snapshot was taken.
C1_SnapshotSoundness ==
    cpc = "done" =>
        \A o \in snap_reach \cap (SmallObjs \cup LargeObjs) : nonmovingIsAlive(o)

\* the pointers a barrier call of worker w is about to see destroyed
DestroyedBy(w, obj, kind) ==
    IF kind = "write" THEN {payload[obj][1]} ELSE thunk_pointer_fields(info[obj], obj)

\* C2 (SATB recording): when a barrier call (updateRemembSetPushClosure,
\* updateRemembSetPushThunk) returns, every pointer into the non-moving heap or
\* to a static object that the store destroys is in the caller's remembered
\* set or on the global list.
C2_SATBRecording ==
    [][\A w \in Workers :
          (mpc[w] = "idle" /\ mpc'[w] \in {"write", "update"}) =>
              \A p \in DestroyedBy(w, mobj'[w], mpc'[w]) \cap Objs :
                  check_in_nonmoving_heap(p) =>
                      p \in ChainEntries(urs'[w].blocks)
                            \cup ChainEntries(upd_rem_set_block_list')]_vars

\* nonmovingBeginFlush has transferred every remembered set and the collector
\* has not yet resumed marking
FlushCompleted == cpc \in {"wait", "wait_cond", "wait_parked"}

\* C3 (barrier completeness), as stated: right after the flush every pointer
\* that was passed to updateRemembSetPushClosure is marked or on the global
\* remembered set list.
C3_BarrierCompleteness_Stated ==
    FlushCompleted =>
        \A p \in satb_passed : IsMarked(p) \/ p \in ChainEntries(upd_rem_set_block_list)

\* C3 (barrier completeness), amended: right after the flush every pointer into
\* the snapshot of the non-moving heap that was passed to
\* updateRemembSetPushClosure is marked (mark byte at the epoch, or BF_MARKED)
\* or on the global remembered set list.
C3_BarrierCompleteness ==
    FlushCompleted =>
        \A p \in satb_passed \cap SnapshotObjs :
            IsMarked(p) \/ p \in ChainEntries(upd_rem_set_block_list)

C3_Witness ==
    /\ cpc = "wait"
    /\ \E p \in satb_passed \cap SnapshotObjs :
          ~IsMarked(p) /\ p \in ChainEntries(upd_rem_set_block_list)

\* what the collector still holds of the closure it is tracing
InHand ==
    IF cpc = "trace"
    THEN LET tr == IF HEAP_ALLOCED_GC(cur) THEN trace_closure(cinfo, cur)
                   ELSE trace_static(cinfo, cur)
         IN  {cur} \cup {tr[i][1] : i \in cfi..Len(tr)}
    ELSE IF cpc \in {"mark_closure", "stack_cas", "large_lock", "large_move", "large_flag",
                     "large_unlock"}
    THEN {cur}
    ELSE {}

GreySources ==
    (ChainEntries(queue.blocks) \cup ChainEntries(upd_rem_set_block_list)
        \cup AllUrsEntries \cup InHand) \cap Objs

\* C4 (marking invariant): while the mark runs, every snapshot-reachable closure
\* of the non-moving heap is marked or is still reachable from an entry of the
\* mark queue, the global remembered set or a worker's remembered set (or from
\* the closure the collector is tracing).
C4_MarkingInvariant ==
    cpc # "done" =>
        \A o \in snap_reach \cap SnapshotObjs :
            IsMarked(o) \/ o \in ReachableFrom(info, payload, indirectee, GreySources)

\* C5 (mark idempotence): a second mark_closure on the same closure leaves the
\* marks, the large-object lists, the mark queue and nonmoving_live_words as
\* the first call left them.
C5_MarkIdempotence == phase = "twice" => MarkState = saved

C5_Witness ==
    /\ phase = "twice"
    /\ cur \in SnapshotObjs
    /\ IsMarked(cur)
    /\ ~markQueueIsEmpty(queue)
    /\ nonmoving_live_words > 0

\* C6 (large-object partition): whenever nonmoving_large_objects_mutex is free,
\* no object is on both large-object lists, none was moved twice, and the two
\* block counts add up to the total before the mark.
C6_LargeObjectPartition ==
    nonmoving_large_objects_mutex = NoThread =>
        /\ SeqToSet(nonmoving_large_objects) \cap SeqToSet(nonmoving_marked_large_objects) = {}
        /\ \A o \in LargeObjs : large_moves[o] <= 1
        /\ n_nonmoving_large_blocks + n_nonmoving_marked_large_blocks = premark_blocks

C6_Witness ==
    /\ nonmoving_large_objects_mutex = NoThread
    /\ nonmoving_large_objects = << >>
    /\ large_moves["T"] = 1
    /\ \E w \in Workers : mobj[w] = "T" /\ mpc[w] = "idle"
    /\ cpc = "mark_ret"

\* C7 (BF_MARKED under the mutex): BF_MARKED is only written by a thread holding
\* nonmoving_large_objects_mutex, and whenever the mutex is free every object
\* with BF_MARKED is on nonmoving_marked_large_objects with its blocks counted.
C7_MarkedUnderMutex ==
    /\ [](nonmoving_large_objects_mutex = NoThread =>
            /\ bf_marked \subseteq SeqToSet(nonmoving_marked_large_objects)
            /\ n_nonmoving_marked_large_blocks = SumBlocks(nonmoving_marked_large_objects))
    /\ [][bf_marked' # bf_marked =>
            /\ nonmoving_large_objects_mutex # NoThread
            /\ nonmoving_large_objects_mutex' = nonmoving_large_objects_mutex]_vars

C7_Witness ==
    /\ nonmoving_large_objects_mutex \in Workers
    /\ "T" \in bf_marked
    /\ "T" \notin SeqToSet(nonmoving_marked_large_objects)

\* C8 (static-claim uniqueness): of the racing bump_static_flag calls on one
\* static closure at most one returns true, and once a call has returned the low
\* bits of the link field are static_flag.
C8_StaticClaimUnique ==
    /\ Cardinality({r \in Racers : bpc[r] = "ret" /\ bret[r]}) <= 1
    /\ (\E r \in Racers : bpc[r] = "ret") => bump_is_current(static_link[RacedStatic])

C8_Witness ==
    /\ \A r \in Racers : bpc[r] = "ret"
    /\ Cardinality({r \in Racers : bret[r]}) = 1
    /\ Cardinality({r \in Racers : ~bret[r]}) = 2

\* C9 (stack claim): of the threads racing for a stack exactly one wins the CAS
\* on stack->marking and runs mark_stack; a loser pushes nothing, and a losing
\* mutator returns only once needs_upd_rem_set_mark(stack) is false.
C9_StackClaim ==
    /\ [](/\ \A k \in Stacks : stack_marks[k] <= 1
          /\ cas_lost # {} => \E k \in Stacks : stack_marks[k] = 1)
    /\ [][/\ \A w \in Workers :
                /\ (mpc[w] = "stack_cas" /\ mpc'[w] = "spin") =>
                        urs' = urs /\ upd_rem_set_block_list' = upd_rem_set_block_list
                /\ (mpc[w] = "spin" /\ mpc'[w] = "idle") => ~needs_upd_rem_set_mark(mobj[w])
          /\ (cpc = "stack_cas" /\ cpc' = "pop") => queue' = queue /\ mark' = mark]_vars

C9_Witness ==
    /\ \E w \in cas_lost \cap Workers : mpc[w] = "idle" /\ mobj[w] = "K"
    /\ GC \in cas_lost
    /\ stack_marks["K"] = 1
    /\ IsMarked("K")

\* C10 (flush progress): the collector is never left parked on
\* upd_rem_set_flushed_cond when every worker has finished its flush, so that
\* repeated nonmovingWaitForFlush calls eventually return true.
C10_FlushProgress ==
    ~(/\ cpc = "wait_parked"
      /\ ~cond_woken
      /\ \A w \in Workers : fpc[w] \in {"none", "done"})

\* C11 (writes under upd_rem_set_lock): every write to upd_rem_set_block_list
\* and to upd_rem_set_flush_count is made by a thread that holds
\* upd_rem_set_lock.
C11_WritesUnderLock == lock_log # NoWrite => "upd_rem_set_lock" \in lock_log.held

\* the lock a thread is blocked on, and who holds it
WaitsFor(t) ==
    IF lpc[t] # NoCall /\ Head(lpc[t].ops)[1] = "acq" THEN holder(Head(lpc[t].ops)[2])
    ELSE NoThread

\* t takes lock l in this step
Takes(t, l) ==
    CASE l = "upd_rem_set_lock" -> upd_rem_set_lock # t /\ upd_rem_set_lock' = t
      [] l = "sm_mutex" -> sm_mutex # t /\ sm_mutex' = t
      [] l = "nonmoving_large_objects_mutex" ->
            nonmoving_large_objects_mutex # t /\ nonmoving_large_objects_mutex' = t

\* C12 (lock discipline and deadlock freedom): upd_rem_set_lock is never taken
\* by a thread that holds the storage-manager lock, no lock is taken by a
\* thread that holds nonmoving_large_objects_mutex, and no set of threads wait
\* for locks held by one another.
C12_LockDiscipline ==
    /\ [][\A t \in Threads :
            /\ Takes(t, "upd_rem_set_lock") => sm_mutex # t
            /\ (\E l \in Locks : Takes(t, l)) => nonmoving_large_objects_mutex # t]_vars
    /\ [](~\E S \in (SUBSET Threads) \ {{}} : \A t \in S : WaitsFor(t) \in S)

C12_Witness ==
    \E t \in Workers :
        /\ WaitsFor(t) = GC
        /\ upd_rem_set_lock = GC
        /\ \E u \in Workers \ {t} : sm_mutex = u

\* C13 (nothing leaks past the flush): once nonmovingFinishFlush has returned,
\* every capability's remembered set is one block with head 0 and
\* upd_rem_set_block_list is empty.
C13_FinishFlushClears ==
    cpc = "done" =>
        /\ \A w \in Workers : urs[w].blocks = << << >> >>
        /\ upd_rem_set_block_list = << >>

C13_Witness == cpc = "done" /\ nres = MaxResurrect

\* C14 (reset of a remembered set): after reset_upd_rem_set the remembered set
\* is one block with head 0, and the pop that follows returns the null entry.
C14_ResetLeavesOneEmptyBlock ==
    /\ cpc \in {"reset", "reset_popped"} => queue.blocks = << << >> >>
    /\ cpc = "reset_popped" => ret = NullEntry

C14_Witness ==
    /\ cpc = "reset_popped"
    /\ n_reset > 0
    /\ n_reset < MARK_QUEUE_BLOCK_ENTRIES

\* the entries of a chain of blocks, oldest first
RECURSIVE QueueContents(_)
QueueContents(blocks) ==
    IF blocks = << >> THEN << >> ELSE QueueContents(Tail(blocks)) \o blocks[1]

\* C15 (queue round trip): on a mark queue the entries queued are exactly the
\* entries pushed and not yet popped, in the order of the pushes, and a pop
\* returns the entry pushed last, unchanged (the null entry if there is none).
C15_QueueRoundTrip ==
    (phase = "initMarkQueue" /\ cpc \in {"ready", "popped"}) =>
        /\ QueueContents(queue.blocks) = pushed
        /\ cpc = "popped" => ret = expect

C15_Witness ==
    /\ phase = "initMarkQueue"
    /\ cpc = "popped"
    /\ ret.type = "MARK_ARRAY"
    /\ Len(pushed) = 2 * MARK_QUEUE_BLOCK_ENTRIES
    /\ Len(queue.blocks) = 3

\* C16 (block accounting): the blocks of a mark queue's chain are the blocks
\* allocated by initMarkQueue and push and not yet freed by markQueuePop, and
\* after freeMarkQueue every allocated block has been freed.
C16_BlockAccounting ==
    phase = "initMarkQueue" =>
        /\ cpc \in {"ready", "popped"} => n_alloc - n_freed = Len(queue.blocks)
        /\ cpc = "freed" => n_freed = n_alloc

C16_Witness ==
    /\ cpc = "freed"
    /\ n_alloc = 3
    /\ Len(queue.blocks) = 1
    /\ ret # NullEntry

\* the start indices of the chunks of an array of n pointers: the seeded index
\* 0 and the multiples of MARK_ARRAY_CHUNK_LENGTH below n
ChunkStarts(n) ==
    [k \in 1..(IF n = 0 THEN 1 ELSE (n + MARK_ARRAY_CHUNK_LENGTH - 1) \div MARK_ARRAY_CHUNK_LENGTH)
        |-> (k - 1) * MARK_ARRAY_CHUNK_LENGTH]

\* C17 (array chunking): no index of the array is passed to push_closure
\* twice; when the mark loop returns every index in [0, n) has been passed
\* once, and the MARK_ARRAY entries processed are the seeded one and one for
\* each further multiple of MARK_ARRAY_CHUNK_LENGTH below n (so none is
\* re-queued at n = MARK_ARRAY_CHUNK_LENGTH).
C17_ArrayChunking ==
    /\ \A i \in DOMAIN arr_traced : arr_traced[i] <= 1
    /\ \A k \in DOMAIN arr_starts :
          k \in DOMAIN ChunkStarts(arr_ptrs) /\ arr_starts[k] = ChunkStarts(arr_ptrs)[k]
    /\ cpc = "mark_ret" =>
          /\ \A i \in 0..(arr_ptrs - 1) : arr_traced[i] = 1
          /\ arr_starts = ChunkStarts(arr_ptrs)

C17_Witness ==
    /\ cpc = "mark_ret"
    /\ arr_ptrs = 300
    /\ arr_starts = <<0, 128, 256>>
    /\ arr_traced[299] = 1

\* C18 (nonmovingIsAlive): true for a static closure; for a large object, true
\* iff it is not in the snapshot or has BF_MARKED; for a small object, true iff
\* its mark is the epoch, or it lies at or above next_free_snap and its mark
\* is 0.
C18_IsAlive ==
    alive.p # NULL =>
        alive.is_alive =
            (IF alive.p \in StaticObjs THEN TRUE
             ELSE IF alive.p \in LargeObjs
             THEN alive.p \notin SweepingObjs \/ alive.marked
             ELSE alive.m = nonmovingMarkEpoch \/ (alive.p \in AfterSnapObjs /\ alive.m = 0))

C18_Witness ==
    /\ alive.p = "n" /\ alive.m = 0 /\ alive.is_alive
    /\ "T" \in bf_marked

\* C19 (nonmovingIsNowAlive): for a small object the result is mark == epoch;
\* it implies nonmovingIsAlive, and the two differ exactly for a small block
\* at or above next_free_snap whose mark is 0.
C19_IsNowAlive ==
    alive.p # NULL =>
        /\ alive.p \in SmallObjs => alive.is_now_alive = (alive.m = nonmovingMarkEpoch)
        /\ alive.is_now_alive => alive.is_alive
        /\ (alive.is_now_alive # alive.is_alive) <=>
              (alive.p \in SmallObjs /\ alive.p \in AfterSnapObjs /\ alive.m = 0)

C19_Witness ==
    /\ alive.p = "n" /\ alive.m = 0
    /\ alive.is_alive /\ ~alive.is_now_alive
    /\ cpc = "mark_ret"

\* the weaks of a list, from its head along the link fields
RECURSIVE WeakList(_)
WeakList(w) == IF w = NULL THEN << >> ELSE <<w>> \o WeakList(weak_link[w])

RECURSIVE Reverse(_)
Reverse(l) == IF l = << >> THEN << >> ELSE Reverse(Tail(l)) \o <<l[1]>>

\* the entries nonmovingMarkLiveWeak pushes for the weaks of l, in order
RECURSIVE LiveWeakPushes(_)
LiveWeakPushes(l) ==
    IF l = << >> THEN << >>
    ELSE << MarkClosureEnt(weak_value(l[1]), NoOrigin),
            MarkClosureEnt(weak_finalizer(l[1]), NoOrigin),
            MarkClosureEnt(weak_cfinalizers(l[1]), NoOrigin) >> \o LiveWeakPushes(Tail(l))

WeakIsDead(w) == weak_info[w] = "DEAD_WEAK"
WeakIsMoved(w) == ~WeakIsDead(w) /\ nonmovingIsNowAlive(weak_key[w])
WeakIsKept(w) == ~WeakIsDead(w) /\ ~nonmovingIsNowAlive(weak_key[w])

\* C20 (nonmovingTidyWeaks): after the call a DEAD_WEAK weak of the old list
\* is on neither list, a weak whose key is now alive is on
\* nonmoving_weak_ptr_list and its value, finalizer and cfinalizers are
\* queued, the other weaks are on nonmoving_old_weak_ptr_list in their
\* original order, and the result is true iff a weak was moved.
C20_TidyWeaks ==
    cpc = "tidy_ret" =>
        LET moved == SelectSeq(tw.old0, WeakIsMoved) IN
        /\ WeakList(nonmoving_old_weak_ptr_list) = SelectSeq(tw.old0, WeakIsKept)
        /\ WeakList(nonmoving_weak_ptr_list) = Reverse(moved) \o tw.new0
        /\ QueueContents(queue.blocks) = LiveWeakPushes(moved)
        /\ tw.did_work = (moved # << >>)

C20_Witness ==
    /\ cpc = "tidy_ret"
    /\ Len(tw.old0) = 3
    /\ \E w \in Weaks : WeakIsDead(w)
    /\ \E w \in Weaks : WeakIsMoved(w) /\ weak_key[w] = "n"
    /\ \E w \in Weaks : WeakIsKept(w)

\* the entries the dead weaks of l put on the queue, in order: the finalizer
\* of each, preceded by the value when the weak has C finalizers
RECURSIVE DeadWeakPushes(_)
DeadWeakPushes(l) ==
    IF l = << >> THEN << >>
    ELSE (IF weak_cfinalizers(l[1]) # stg_NO_FINALIZER_closure
          THEN << MarkClosureEnt(weak_value(l[1]), NoOrigin) >> ELSE << >>)
         \o << MarkClosureEnt(weak_finalizer(l[1]), NoOrigin) >>
         \o DeadWeakPushes(Tail(l))

\* the entries as stated: value and finalizer of each, and the cfinalizers
\* unless they are the sentinel
RECURSIVE DeadWeakPushesStated(_)
DeadWeakPushesStated(l) ==
    IF l = << >> THEN << >>
    ELSE << MarkClosureEnt(weak_value(l[1]), NoOrigin),
            MarkClosureEnt(weak_finalizer(l[1]), NoOrigin) >>
         \o (IF weak_cfinalizers(l[1]) # stg_NO_FINALIZER_closure
             THEN << MarkClosureEnt(weak_cfinalizers(l[1]), NoOrigin) >> ELSE << >>)
         \o DeadWeakPushesStated(Tail(l))

SeqRange(l) == {l[i] : i \in DOMAIN l}
ThreadNotAlive(t) == ~nonmovingIsNowAlive(t)
ThreadResurrected(t) == resurrects(what_next[t])

\* the MARK_CLOSURE entries of the closures of l, in order
RECURSIVE ClosurePushes(_)
ClosurePushes(l) ==
    IF l = << >> THEN << >>
    ELSE << MarkClosureEnt(l[1], NoOrigin) >> \o ClosurePushes(Tail(l))

\* C22 (nonmovingTidyThreads): after the call nonmoving_old_threads holds
\* exactly the threads of the old list that are not now alive,
\* nonmoving_threads its previous members and the old-list threads that are now
\* alive, the lists are disjoint and no thread is lost or duplicated.
C22_TidyThreads ==
    cpc = "tidy_threads_ret" =>
        LET old == ThreadList(nonmoving_old_threads)
            new == ThreadList(nonmoving_threads)
        IN
        /\ SeqRange(old) = {t \in SeqRange(tt.old0) : ~nonmovingIsNowAlive(t)}
        /\ SeqRange(new) =
              SeqRange(tt.new0) \cup {t \in SeqRange(tt.old0) : nonmovingIsNowAlive(t)}
        /\ SeqRange(old) \cap SeqRange(new) = {}
        /\ Len(old) + Len(new) = Len(tt.old0) + Len(tt.new0)
        /\ old = SelectSeq(tt.old0, ThreadNotAlive)

C22_Witness ==
    /\ cpc = "tidy_threads_ret"
    /\ tt.old0 = <<"b", "T", "x">>
    /\ ThreadList(nonmoving_old_threads) = <<"b", "T">>
    /\ nonmoving_threads = "x"

\* C23 (nonmovingResurrectThreads): a thread of nonmoving_old_threads is
\* pushed on the mark queue and linked onto the resurrected list iff its
\* what_next is neither ThreadKilled nor ThreadComplete.
C23_ResurrectThreads ==
    cpc = "resurrect_ret" =>
        LET res == SelectSeq(tt.left, ThreadResurrected) IN
        /\ QueueContents(queue.blocks) = ClosurePushes(res)
        /\ ThreadList(resurrected_threads) = Reverse(res)
        /\ \A t \in SeqRange(tt.left) :
              what_next[t] \in {"ThreadKilled", "ThreadComplete"} =>
                 /\ t \notin SeqRange(ThreadList(resurrected_threads))
                 /\ \A i \in DOMAIN QueueContents(queue.blocks) :
                       QueueContents(queue.blocks)[i].p # t

C23_Witness ==
    /\ cpc = "resurrect_ret"
    /\ tt.left = <<"b", "T", "x">>
    /\ what_next["b"] = "ThreadComplete"
    /\ what_next["T"] = "ThreadRunGHC"
    /\ what_next["x"] = "ThreadKilled"
    /\ resurrected_threads = "T"

\* weaks w1 (key k1, value k2) and w2 (key k2, value v) on the old list, only
\* k1 a root
FixScenario ==
    /\ SeqRange(tw.old0) = {"wk1", "wk2"}
    /\ weak_info["wk1"] = "WEAK" /\ weak_info["wk2"] = "WEAK"
    /\ weak_key["wk1"] = FixRoots[1]
    /\ weak_key["wk2"] = weak_value("wk1")

\* C24 (weak fixpoint): in the scenario the alternation of nonmovingMark and
\* nonmovingTidyWeaks ends with both weaks on nonmoving_weak_ptr_list, none on
\* the old list and v marked; in general nonmovingTidyWeaks is called at most
\* (number of weaks + 1) times.
C24_WeakFixpoint ==
    /\ tw.rounds <= Len(tw.old0) + 1
    /\ (cpc = "fix_done" /\ FixScenario) =>
          /\ SeqRange(WeakList(nonmoving_weak_ptr_list)) = {"wk1", "wk2"}
          /\ nonmoving_old_weak_ptr_list = NULL
          /\ mark[weak_value("wk2")] = nonmovingMarkEpoch

C24_Witness ==
    /\ cpc = "fix_done"
    /\ FixScenario
    /\ tw.rounds = 3
    /\ tw.old0 = <<"wk2", "wk1">>

\* the slot no longer holds A and A never went through the barrier: the
\* overwrite was made before the mark began
OverwrittenBeforeMark == payload[BarrierSlot] # <<BarrierA>> /\ BarrierA \notin satb_passed
\* A was the old value of a store made with the barrier enabled
OverwrittenDuringMark == BarrierA \in satb_passed

\* C25 (barrier-only reachability): with no roots, after the mark, the flush
\* and the final pass, A is not alive when its only slot was overwritten
\* before the mark began, and alive when it was overwritten while the mark
\* ran.
C25_BarrierOnlyReachability ==
    cpc = "done" =>
        /\ OverwrittenBeforeMark => ~nonmovingIsAlive(BarrierA)
        /\ OverwrittenDuringMark => nonmovingIsAlive(BarrierA)

C25_Witness ==
    /\ cpc = "done"
    /\ OverwrittenDuringMark
    /\ nonmovingIsAlive(BarrierA)
    /\ payload[BarrierSlot] # <<BarrierA>>

\* the other case of C25: overwritten before the mark, not alive after it
C25_WitnessBefore ==
    /\ cpc = "done"
    /\ OverwrittenBeforeMark
    /\ ~nonmovingIsAlive(BarrierA)
    /\ nops > 0

\* a call of the function fn returns in the next state
Returns(fn) == cpc' = "push_ret" /\ phase' = fn
NotInOldestGen(p) == HEAP_ALLOCED_GC(p) /\ ~gen_is_oldest(p)

\* C26 (push filtering): push_closure and push_array leave the queue unchanged
\* when the heap-allocated target is not in the oldest generation,
\* updateRemembSetPushClosure leaves the remembered set unchanged when the
\* target is heap-allocated in a block without BF_NONMOVING, and an entry
\* stored by push_closure holds the pointer without its tag bits.
C26_PushFiltering ==
    [][/\ (Returns("push_closure") \/ Returns("push_array")) /\ NotInOldestGen(cur')
            => UNCHANGED <<queue, urs, upd_rem_set_block_list>>
       /\ (Returns("updateRemembSetPushClosure")
             /\ HEAP_ALLOCED_GC(cur') /\ "BF_NONMOVING" \notin bd_flags(cur'))
            => UNCHANGED <<queue, urs, upd_rem_set_block_list>>
       /\ (Returns("push_closure") /\ queue' # queue)
            => LET top == queue'.blocks[1] IN
               /\ top[Len(top)].p \notin TaggedPtrs
               /\ top[Len(top)].p \in Objs
               /\ top[Len(top)].p = UNTAG_CLOSURE(cur')
               /\ ChainLen(queue'.blocks) = ChainLen(queue.blocks) + 1]_vars

C26_Witness ==
    /\ cpc = "push_ret"
    /\ phase = "push_closure"
    /\ cur = "b+1"
    /\ queue.blocks = << <<MarkClosureEnt("b", NoOrigin)>>,
                         <<MarkClosureEnt("s", NoOrigin), MarkClosureEnt("pin", NoOrigin)>> >>

\* C29 (GC-time push): markQueuePushClosureGC never takes the storage-manager
\* lock; it takes gc_alloc_block_sync, and only when the top block is full;
\* it always appends one MARK_CLOSURE entry with the untagged pointer and a
\* null origin, the chain growing by one block when the top block was full.
C29_PushClosureGC ==
    [][Returns("markQueuePushClosureGC") =>
         LET full == Len(queue.blocks[1]) = MARK_QUEUE_BLOCK_ENTRIES
             top == queue'.blocks[1]
         IN
         /\ "sm_mutex" \notin lock_log'.held
         /\ lock_log'.held = IF full THEN {"gc_alloc_block_sync"} ELSE {}
         /\ QueueContents(queue'.blocks) =
               Append(QueueContents(queue.blocks),
                      [type |-> "MARK_CLOSURE", p |-> UNTAG_CLOSURE(cur'), origin |-> NoOrigin])
         /\ top[Len(top)].p \notin TaggedPtrs
         /\ Len(queue'.blocks) = Len(queue.blocks) + (IF full THEN 1 ELSE 0)
         /\ UNCHANGED <<urs, upd_rem_set_block_list, sm_mutex>>]_vars

C29_Witness ==
    /\ cpc = "push_ret"
    /\ phase = "markQueuePushClosureGC"
    /\ cur = "y+1"
    /\ lock_log.held = {"gc_alloc_block_sync"}
    /\ Len(queue.blocks) = 2
    /\ queue.blocks[1] = <<MarkClosureEnt("y", NoOrigin)>>

\* C27 (queue shape): a capability's remembered set always owns at least one
\* block, and every queue keeps the is_upd_rem_set flag it was constructed
\* with: true for a remembered set, false for the collector's mark queue.
C27_QueueShape ==
    /\ \A w \in Workers : Len(urs[w].blocks) >= 1 /\ urs[w].is_upd_rem_set = TRUE
    /\ Len(queue.blocks) >= 1
    /\ queue.is_upd_rem_set = FALSE

C27_Witness ==
    /\ cpc = "done"
    /\ n_freed > 0
    /\ nres > 0
    /\ satb_passed \cap SnapshotObjs # {}

\* C28 (mark loop termination): nonmovingMark returns only from a pop that
\* gave the null entry with the global list seen empty, and leaves the queue
\* one block with head 0; a null entry with the global list non-empty leads
\* to the splice, which takes the whole list, empties it and frees the
\* drained block; with finitely many barrier pushes every call returns.
C28_MarkLoopTermination ==
    /\ [][/\ (cpc' = "mark_ret" /\ cpc # "mark_ret") =>
                /\ cpc = "pop"
                /\ markQueuePop(queue).ent = NullEntry
                /\ upd_rem_set_block_list = << >>
                /\ queue'.blocks = << << >> >>
          /\ (cpc = "pop" /\ cpc' # "pop" /\ markQueuePop(queue).ent = NullEntry
                /\ upd_rem_set_block_list # << >>) => cpc' = "splice"
          /\ (cpc = "splice" /\ cpc' # "splice") =>
                /\ queue.blocks = << << >> >>
                /\ queue'.blocks = upd_rem_set_block_list
                /\ upd_rem_set_block_list' = << >>
                /\ n_freed' = n_freed + 1]_vars
    /\ (cpc = "pop") ~> (cpc = "mark_ret")

C28_Witness ==
    /\ cpc = "mark_ret"
    /\ phase = "final"
    /\ n_freed > 0
    /\ nops = MaxMutOps
    /\ queue.blocks = << << >> >>

\* the state the dirty-object barriers work on, the caller's locals left out
BarrierState == <<heapvars, markvars, largevars, queuevars>>

\* C30 (dirty-object barrier): needs_upd_rem_set_mark(p) is true iff p is in
\* the oldest generation and unmarked (large: BF_NONMOVING_SWEEPING set and
\* BF_MARKED clear; small: mark byte not the epoch); a call of
\* updateRemembSetPushTSO or updateRemembSetPushStack goes on only when it
\* is true and otherwise returns with nothing changed; for a TSO the fields
\* are pushed to the caller's own remembered set first and the TSO is marked
\* when the call returns.
C30_DirtyObjectBarrier ==
    /\ [](\A p \in Objs \ StaticObjs :
            needs_upd_rem_set_mark(p) =
               (/\ p \notin YoungObjs
                /\ IF p \in LargeObjs THEN p \in SweepingObjs /\ p \notin bf_marked
                                      ELSE mark[p] # nonmovingMarkEpoch))
    /\ [][/\ \A w \in Workers :
                (mpc[w] = "idle" /\ mpc'[w] # "idle") => needs_upd_rem_set_mark(mobj'[w])
          /\ (nops' = nops + 1 /\ mpc' = mpc) => UNCHANGED BarrierState
          /\ \A w \in Workers :
                (mpc[w] = "idle" /\ mpc'[w] = "finish" /\ mobj'[w] \in TSOs) =>
                   /\ QueueContents(urs'[w].blocks \o upd_rem_set_block_list') =
                         QueueContents(urs[w].blocks \o upd_rem_set_block_list)
                         \o ClosurePushes(payload[mobj'[w]])
                   /\ \A u \in Workers \ {w} : urs'[u] = urs[u]
                   /\ UNCHANGED <<queue, heapvars, markvars, largevars>>
          /\ \A w \in Workers :
                (mpc[w] \in {"finish", "finish_unlock"} /\ mpc'[w] = "idle") =>
                   IF mobj[w] \in LargeObjs THEN mobj[w] \in bf_marked'
                   ELSE mark'[mobj[w]] = nonmovingMarkEpoch]_vars

C30_Witness ==
    /\ \E w \in Workers : mpc[w] = "idle" /\ mobj[w] = "T"
    /\ "T" \in bf_marked
    /\ ~needs_upd_rem_set_mark("T")
    /\ nops = MaxMutOps
    /\ \E i \in DOMAIN QueueContents(upd_rem_set_block_list) :
          QueueContents(upd_rem_set_block_list)[i].p = "K"

\* the cases in which mark_closure has nothing to do for closure p
MarkClosureNoOp(p) ==
    \/ p \in YoungObjs
    \/ p \in LargeObjs /\ (p \notin SweepingObjs \/ p \in bf_marked)
    \/ p \in SmallObjs /\ mark[p] = nonmovingMarkEpoch
    \/ p \in SmallObjs /\ above_next_free_snap(p) /\ mark[p] = 0
    \/ p \in PinnedObjs
    \/ p \in StaticObjs /\ info[p] \in {"CONSTR_0_1", "CONSTR_0_2", "CONSTR_NOCAF"}

\* C31 (mark_closure no-op cases): a mark_closure call on a closure of a
\* younger generation, a large object outside the snapshot or with BF_MARKED,
\* a small object marked in this epoch or allocated after the snapshot with
\* mark 0, a pinned block or a static CONSTR_0_1 / CONSTR_0_2 / CONSTR_NOCAF
\* returns at once: nothing is pushed, no mark byte, flag, link word, list or
\* nonmoving_live_words changes.
C31_MarkClosureNoOp ==
    [][(cpc = "mark_closure" /\ MarkClosureNoOp(cur)) =>
          /\ cpc' = "pop"
          /\ UNCHANGED <<heapvars, markvars, largevars, queuevars, stack_marks, large_moves>>]_vars

C31_Witness ==
    /\ phase = "second"
    /\ cpc = "pop"
    /\ cur \in SweepingObjs
    /\ cur \in bf_marked
    /\ MarkState = saved

\* the entries of a chain of blocks
RECURSIVE ChainRecords(_)
ChainRecords(blocks) ==
    IF blocks = << >> THEN {}
    ELSE SeqToSet(blocks[1]) \cup ChainRecords(Tail(blocks))

\* the pointers of closure o that a mark of o has to push (push drops the
\* pointers into younger generations)
PointerFields(o) == PointersOf(info, payload, indirectee, o) \ YoungObjs

\* pointer f is in a queue, or has been popped from one: the collector is in
\* mark_closure on it, or that call has returned (marked, nothing to do, static
\* closure already linked, stack claimed by another thread)
Enumerated(f) ==
    \/ f \in ChainEntries(queue.blocks) \cup ChainEntries(upd_rem_set_block_list)
             \cup AllUrsEntries
    \/ f \in InHand
    \/ f \in StaticObjs /\ (bump_is_current(static_link[f]) \/ ~static_wants_bump(info[f], f))
    \/ f \notin StaticObjs /\ (IsMarked(f) \/ MarkClosureNoOp(f))
    \/ info[f] = "STACK" /\ marking[f] = nonmovingMarkEpoch

StackMarkers(k) ==
    {w \in Workers : mobj[w] = k /\ mpc[w] = "finish"}
    \cup (IF cur = k /\ cpc = "trace" THEN {GC} ELSE {})

\* C33 (stack spin-wait): a stack whose marking word is the current epoch and
\* whose mark is not set has exactly one thread on its way to set the mark,
\* and a mutator that lost the CAS of updateRemembSetPushStack and waits for
\* needs_upd_rem_set_mark(stack) to turn false returns, every thread inside
\* the mark loop or a barrier being scheduled again and again.
C33_StackSpinWait ==
    /\ [](\A k \in Stacks :
            (marking[k] = nonmovingMarkEpoch /\ needs_upd_rem_set_mark(k)) =>
                Cardinality(StackMarkers(k)) = 1)
    /\ \A w \in Workers : (mpc[w] = "spin") ~> (mpc[w] = "idle")

C33_Witness ==
    /\ \E w \in Workers : mpc[w] = "spin" /\ mobj[w] = "K" /\ w \in cas_lost
    /\ marking["K"] = nonmovingMarkEpoch
    /\ needs_upd_rem_set_mark("K")
    /\ StackMarkers("K") = {GC}

\* C34 (remembered-set overflow): a barrier push that finds the top block of
\* the capability's remembered set full links the whole chain, entries
\* included, onto upd_rem_set_block_list with upd_rem_set_lock taken, leaves
\* the remembered set one fresh block and stores the new entry there, so that
\* the remembered set holds that entry alone; a barrier push into a block that
\* is not full takes no lock and leaves the global list alone.
C34_OverflowTransfer ==
    [][Returns("updateRemembSetPushClosure") =>
          \A w \in Workers :
             urs'[w] # urs[w] =>
                LET ent == MarkClosureEnt(UNTAG_CLOSURE(cur'), NoOrigin) IN
                IF Len(urs[w].blocks[1]) = MARK_QUEUE_BLOCK_ENTRIES
                THEN /\ upd_rem_set_block_list' = urs[w].blocks \o upd_rem_set_block_list
                     /\ urs'[w] = [blocks |-> << <<ent>> >>, is_upd_rem_set |-> TRUE]
                     /\ "upd_rem_set_lock" \in lock_log'.held
                ELSE /\ upd_rem_set_block_list' = upd_rem_set_block_list
                     /\ urs'[w].blocks = << Append(urs[w].blocks[1], ent) >> \o Tail(urs[w].blocks)
                     /\ lock_log'.held = {}]_vars

C34_Witness ==
    /\ cpc = "push_ret"
    /\ phase = "updateRemembSetPushClosure"
    /\ cur = "a"
    /\ lock_log.held = {"upd_rem_set_lock", "sm_mutex"}
    /\ \E w \in Workers : urs[w].blocks = << <<MarkClosureEnt("a", NoOrigin)>> >>
    /\ upd_rem_set_block_list =
          << <<MarkClosureEnt("b", NoOrigin), MarkClosureEnt("s", NoOrigin)>> >>

\* the collector is inside nonmovingMark
InMarkLoop == cpc \notin {"mark_ret", "barf"}

\* the collector is at the acquisition of a lock that another thread holds
WaitsForLock ==
    \/ cpc = "large_lock" /\ nonmoving_large_objects_mutex # NoThread
    \/ cpc = "splice" /\ upd_rem_set_lock # NoThread

\* the collector is in the loop of case WHITEHOLE with the closure still locked
SpinsOnWhitehole == cpc = "whitehole" /\ info[cur] = "WHITEHOLE"

\* C35 as stated: wherever the collector is in the mark loop, it can take its
\* next step unless it is waiting for a lock, a closure whose info is
\* WHITEHOLE included.
C35_NeverWaits_Stated == (InMarkLoop /\ ~WaitsForLock) => ENABLED MarkLoopSteps

\* C35 (the mark loop and the mutators): the collector waits for another
\* thread only at a lock and in mark_closure on a closure whose info is
\* WHITEHOLE, where it spins until the info pointer changes; everywhere else
\* in the loop (pop, mark_closure on any other closure, a stack already
\* claimed by a mutator included, array chunk, splice) it can take its next
\* step whatever the mutators do.
C35_NeverWaits ==
    /\ (InMarkLoop /\ ~WaitsForLock /\ ~SpinsOnWhitehole) => ENABLED MarkLoopSteps
    /\ SpinsOnWhitehole => ~ENABLED MarkLoopSteps

C35_Witness ==
    /\ GC \in cas_lost
    /\ cpc = "pop"
    /\ \E w \in Workers : mpc[w] = "finish" /\ mobj[w] = "K"
    /\ needs_upd_rem_set_mark("K")
    /\ ENABLED MarkLoopSteps
    /\ \E w \in Workers : mpc[w] = "locked"

\* the corruption mark_closure can meet in the closure p it was called on
UnknownStaticType(p) ==
    ~HEAP_ALLOCED_GC(p) /\ info[p] \notin StaticIgnoredTypes \cup StaticLinkedTypes \cup {"WHITEHOLE"}
StrangeBlock(p) ==
    /\ HEAP_ALLOCED_GC(p) /\ gen_is_oldest(p)
    /\ "BF_NONMOVING" \notin bd_flags(p) /\ "BF_PINNED" \notin bd_flags(p)
UnknownClosureType(p) ==
    /\ HEAP_ALLOCED_GC(p) /\ ~StrangeBlock(p) /\ classify_heap(p) = "trace"
    /\ info[p] \notin TracedTypes \cup {"WHITEHOLE"}
WeirdFrame(p) ==
    /\ p \in Objs /\ info[p] = "STACK"
    /\ \E k \in 1..Len(stack_frames(p)) : stack_frames(p)[k].type \notin KnownFrameTypes

\* C36: mark_closure calls barf exactly when it meets a static closure of
\* unknown type, a pointer into an oldest-generation block that is neither
\* BF_NONMOVING nor BF_PINNED, a heap closure of unknown type at the trace
\* switch, or (in mark_stack_) a stack frame of unknown type; the thunk barrier
\* calls barf exactly for a type other than THUNK*, AP, THUNK_SELECTOR and
\* BLACKHOLE; at the abort the object's mark bit has not been set, and every
\* call ends either at its return or at barf
C36_CorruptionAborts ==
    [][/\ (cpc # "barf" /\ cpc' = "barf") =>
            /\ cur' = cur
            /\ \/ cpc = "mark_closure" /\ UnknownStaticType(cur)
               \/ cpc = "mark_closure" /\ StrangeBlock(cur)
               \/ cpc = "mark_closure" /\ UnknownClosureType(cur)
               \/ cpc = "trace" /\ WeirdFrame(cur)
            /\ UNCHANGED <<mark, bf_marked, static_link, nonmoving_live_words>>
            /\ (cur \in Objs /\ HEAP_ALLOCED_GC(cur)) => ~IsMarked(cur)
       /\ (/\ cpc = "mark_closure" /\ cpc' # cpc
           /\ UnknownStaticType(cur) \/ StrangeBlock(cur) \/ UnknownClosureType(cur))
             => cpc' = "barf"
       /\ (cpc = "trace" /\ WeirdFrame(cur) /\ cpc' # cpc) => cpc' = "barf"
       /\ (cpc = "mark_closure" /\ cpc' # cpc)
             => cpc' \in {"pop", "trace", "stack_cas", "whitehole", "barf"}
       /\ \A w \in Workers :
            (mpc[w] = "idle" /\ mpc'[w] \in {"update", "barf"}) =>
               /\ mpc'[w] = "barf" <=>
                     info[mobj'[w]] \notin {"THUNK", "THUNK_1_0", "THUNK_0_1", "THUNK_2_0",
                                            "THUNK_1_1", "THUNK_0_2", "AP", "THUNK_SELECTOR",
                                            "BLACKHOLE"}
               /\ mpc'[w] = "barf" => UNCHANGED <<markvars, queuevars>>
       /\ \A w \in Workers : mpc[w] = "barf" => mpc'[w] = "barf"
       /\ cpc = "barf" => UNCHANGED <<collvars, markvars, queue>>]_vars

\* the collector aborted in mark_stack_ on the stack with the weird frame,
\* which it had claimed and not marked, and a mutator aborted in the thunk
\* barrier
C36_Witness ==
    /\ cpc = "barf" /\ cur = "Kw"
    /\ marking["Kw"] = nonmovingMarkEpoch /\ ~IsMarked("Kw")
    /\ \E w \in Workers : mpc[w] = "barf" /\ info[mobj[w]] = INVALID_OBJECT

\* the owners of block b by the pointers that lead to it
BlockOwners(b) ==
    {w \in Workers : b \in ChainSet(rset_blocks[w])}
    \cup (IF b \in ChainSet(block_list) THEN {"upd_rem_set_block_list"} ELSE {})
    \cup (IF b \in ChainSet(queue_blocks) THEN {"mark queue"} ELSE {})
    \cup (IF bdescr[b].free THEN {"free pool"} ELSE {})

\* the capability whose remembered set a thread has linked onto the global
\* list and not yet replaced by a fresh block
HandedOver(w) ==
    \/ \E v \in Workers : mpc[v] = "add_init" /\ add_call[v].rset = w
    \/ cpc = "add_init" /\ add_call[GC].rset = w

\* the owners of block b when a remembered set that is being handed over no
\* longer counts as the capability's and the block the collector has unlinked
\* and not yet freed counts as the collector's
BlockHolders(b) ==
    {w \in Workers : ~HandedOver(w) /\ b \in ChainSet(rset_blocks[w])}
    \cup (IF b \in ChainSet(block_list) THEN {"upd_rem_set_block_list"} ELSE {})
    \cup (IF b \in ChainSet(queue_blocks) THEN {"mark queue"} ELSE {})
    \cup (IF bdescr[b].free THEN {"free pool"} ELSE {})
    \cup (IF b = old_block THEN {"old"} ELSE {})

\* the global list ends, and no block is on it twice
ListAcyclic ==
    /\ Len(Chain(block_list)) <= MaxBds
    /\ Cardinality(ChainSet(block_list)) = Len(Chain(block_list))

\* C37 as stated: in every reachable state each block belongs to exactly one
\* of a capability's remembered set, the global list, the mark queue and the
\* free pool; the global list is acyclic; no double free, no use after free
C37_BlockOwnership_Stated ==
    /\ \A b \in Bds : Cardinality(BlockOwners(b)) = 1
    /\ ListAcyclic
    /\ faults = {}

\* C37: each block has exactly one holder among the capabilities' remembered
\* sets, the global list, the mark queue, the free pool and the collector's
\* unlinked block, where a remembered set between the two critical sections
\* of nonmovingAddUpdRemSetBlocks is not counted; the global list is acyclic
\* with each block at most once; no block is freed twice or used when free
C37_BlockOwnership ==
    /\ \A b \in Bds : Cardinality(BlockHolders(b)) = 1
    /\ ListAcyclic
    /\ faults = {}

\* two blocks on the global list, handed over by different threads, while the
\* collector has spliced before and a worker flushes on its own
C37_Witness ==
    /\ Len(Chain(block_list)) >= 2
    /\ phase = "flush"
    /\ \E w \in Workers : fpc[w] = "done"
    /\ queue_blocks # 3

\* how often entry e is stored below the head of a block that is in use
RECURSIVE Occurrences(_, _)
Occurrences(e, S) ==
    IF S = {} THEN 0
    ELSE LET b == CHOOSE c \in S : TRUE
         IN  Cardinality({i \in 1..Len(bdescr[b].entries) : bdescr[b].entries[i] = e})
             + Occurrences(e, S \ {b})
Queued(e) == Occurrences(e, {b \in Bds : ~bdescr[b].free})

\* C38: every entry a push stored is at any time in exactly one place: once
\* in one block of a remembered set, the global list or the mark queue, or
\* popped by the mark loop exactly once, or discarded by nonmovingFinishFlush
\* (reset_upd_rem_set or the free of the global list); an entry is popped
\* only from the mark queue, which it reaches from the global list; when the
\* flush has finished every entry has been popped once or discarded
C38_EntryConservation ==
    /\ [](\A e \in 1..n_ents :
            /\ Queued(e) + n_popped[e] + (IF e \in discarded THEN 1 ELSE 0) = 1
            /\ e \in ChainEnts(queue_blocks) =>
                  \A w \in Workers : HandedOver(w) \/ e \notin ChainEnts(rset_blocks[w]))
    /\ [](cpc = "done" => \A e \in 1..n_ents : Queued(e) = 0)
    /\ [][/\ \A e \in 1..n_ents :
                n_popped'[e] # n_popped[e] => e \in ChainEnts(queue_blocks)
          /\ \A e \in 1..n_ents :
                (e \in ChainEnts(queue_blocks)' /\ e \notin ChainEnts(queue_blocks))
                   => e \in ChainEnts(block_list)
          /\ discarded' # discarded => cpc' = "done"]_vars

\* the flush has finished after entries of a block that overflowed were
\* popped and entries pushed by thread resurrection were discarded
C38_Witness ==
    /\ cpc = "done" /\ n_ents = MaxEnts
    /\ \E e \in 1..n_ents : n_popped[e] = 1
    /\ \E e \in 1..n_ents : e \in discarded
    /\ \E b \in Bds : b > 3 /\ ~bdescr[b].free

\* C39: from the reset of upd_rem_set_flush_count in nonmovingBeginFlush to
\* nonmovingFinishFlush the counter never exceeds n_capabilities, also when
\* workers flush on their own besides the forced flush of every capability;
\* nonmovingWaitForFlush returns true only when the counter it read under
\* upd_rem_set_lock equalled n_capabilities
C39_FlushCounting ==
    /\ [](phase \in {"flush", "final"} => upd_rem_set_flush_count <= n_capabilities)
    /\ [][(cpc = "wait" /\ phase' = "final")
             => (upd_rem_set_flush_count = n_capabilities /\ upd_rem_set_lock = NoThread)]_vars

\* the weaks nonmovingTidyWeaks left on nonmoving_old_weak_ptr_list
WeaksLeft == SelectSeq(tw.old0, WeakIsKept)

ToResurrect(t) == what_next[t] \notin {"ThreadKilled", "ThreadComplete"}

\* the threads of l up to the first one that is resurrected, that one included
RECURSIVE UpToResurrected(_)
UpToResurrected(l) ==
    IF l = << >> THEN << >>
    ELSE IF ToResurrect(l[1]) THEN <<l[1]>>
    ELSE <<l[1]>> \o UpToResurrected(Tail(l))

\* C40 as stated (reconciliation list disjointness): after
\* nonmovingMarkDeadWeaks returns no weak is reachable both from
\* nonmoving_old_weak_ptr_list and from dead_weaks, after
\* nonmovingResurrectThreads returns no thread is reachable both from
\* nonmoving_old_threads and from the resurrected list, and every weak or
\* thread that was on the old list is on exactly one of the two lists.
C40_ListDisjointness_Stated ==
    /\ cpc = "dead_ret" =>
          LET old == SeqRange(WeakList(nonmoving_old_weak_ptr_list))
              dead == SeqRange(WeakList(dead_weaks))
          IN  /\ old \cap dead = {}
              /\ \A w \in SeqRange(WeaksLeft) : (w \in old) # (w \in dead)
    /\ cpc = "resurrect_ret" =>
          LET old == SeqRange(ThreadList(nonmoving_old_threads))
              res == SeqRange(ThreadList(resurrected_threads))
          IN  /\ old \cap res = {}
              /\ \A t \in SeqRange(tt.left) : (t \in old) # (t \in res)

\* C40 (reconciliation lists): after nonmovingMarkDeadWeaks returns every weak
\* that was on the old list is on dead_weaks exactly once and on no other
\* output list, and after nonmovingResurrectThreads returns every thread of the
\* old list that is neither killed nor complete is on the resurrected list
\* exactly once and no other thread is; the heads of the old lists are not
\* reset, so nonmoving_old_weak_ptr_list still reaches the first weak moved
\* and nonmoving_old_threads the threads up to the first one resurrected.
C40_ListReconciliation ==
    /\ cpc = "dead_ret" =>
          LET old == WeakList(nonmoving_old_weak_ptr_list)
              dead == WeakList(dead_weaks)
          IN  /\ SeqRange(dead) = SeqRange(WeaksLeft)
              /\ Len(dead) = Len(WeaksLeft)
              /\ SeqRange(dead) \cap SeqRange(WeakList(nonmoving_weak_ptr_list)) = {}
              /\ old = IF WeaksLeft = << >> THEN << >> ELSE <<WeaksLeft[1]>>
    /\ cpc = "resurrect_ret" =>
          LET old == ThreadList(nonmoving_old_threads)
              res == ThreadList(resurrected_threads)
          IN  /\ SeqRange(res) = {t \in SeqRange(tt.left) : ToResurrect(t)}
              /\ Len(res) = Cardinality(SeqRange(res))
              /\ SeqRange(res) \cap SeqRange(ThreadList(nonmoving_threads)) = {}
              /\ old = UpToResurrected(tt.left)

C40_Witness ==
    /\ cpc = "dead_ret"
    /\ Len(WeakList(dead_weaks)) = 2
    /\ nonmoving_weak_ptr_list # NULL
    /\ nonmoving_old_weak_ptr_list \in SeqRange(WeakList(dead_weaks))

====
